---- MODULE Spec2Model ----
(***************************************************************************)
(* Model of the terminal core of dma9527/terminal-emulator: the VT parser  *)
(* (core/parser.rs), the streaming UTF-8 decoder and width table           *)
(* (core/utf8.rs), the grid store (core/grid.rs), the terminal handler     *)
(* (core/handler.rs) and the shell-integration tracker                     *)
(* (shell_integration.rs).                                                 *)
(*                                                                         *)
(* Bytes and codepoints are integers.  A Rust Vec / String is a sequence;  *)
(* a zero-based index i of the code is element i + 1 of the sequence.      *)
(* Option<T> is <<>> (None) or <<v>> (Some(v)).  A panic of the code       *)
(* (index out of range, unsigned subtraction below zero) sets the field    *)
(* `panicked` of the terminal record, after which nothing runs.            *)
(***************************************************************************)
EXTENDS Integers, Sequences, FiniteSets, TLC

\* ------------------------------------------------------------------------
\* Bounds of the model
\* ------------------------------------------------------------------------

\* number of feed_bytes calls in one behaviour of the specifications that
\* draw from few inputs
MaxCallsFew == 4

\* number of one-byte feed_bytes calls in one behaviour of the byte-wise
\* specification
MaxBytes == 5

\* calls made on the session when OSC 133 markers are fed
MaxMarkers == 6

\* calls made on the session when tab stops are set and cleared
MaxTabCalls == 5

\* calls made on the session when palette colours are selected
MaxPaletteCalls == 1

\* columns of the terminal created in Init
Cols == 3

\* rows of the terminal created in Init
Rows == 2

\* scrollback capacity configured at construction (config.scrollback)
MaxScrollback == 1

\* number of feed_bytes / resize calls in one behaviour
MaxCalls == 3

\* ------------------------------------------------------------------------
\* Helpers over sequences and integers
\* ------------------------------------------------------------------------

Min(a, b) == IF a <= b THEN a ELSE b

Max(a, b) == IF a >= b THEN a ELSE b

\* usize::saturating_sub
SatSub(a, b) == IF a >= b THEN a - b ELSE 0

None == << >>

Some(v) == << v >>

IsSome(o) == Len(o) = 1

\* sequence of n copies of v (vec![v; n])
Fill(n, v) == [i \in 1..n |-> v]

\* elements a..b (1-based, inclusive) of s
Slice(s, a, b) == [i \in 1..(b - a + 1) |-> s[a + i - 1]]

\* ------------------------------------------------------------------------
\* core/parser.rs
\* ------------------------------------------------------------------------

REPLACEMENT_CHARACTER == 65533

U16_MAX == 65535

ActNone ==
  [type |-> "None", ch |-> 0, byte |-> 0, params |-> << >>,
   intermediates |-> << >>, data |-> << >>]

ActPrint(c) == [ActNone EXCEPT !.type = "Print", !.ch = c]

ActExecute(b) == [ActNone EXCEPT !.type = "Execute", !.byte = b]

ActCsiDispatch(b, ps, is) ==
  [ActNone EXCEPT !.type = "CsiDispatch", !.byte = b, !.params = ps,
                  !.intermediates = is]

ActEscDispatch(b, is) ==
  [ActNone EXCEPT !.type = "EscDispatch", !.byte = b, !.intermediates = is]

ActOscDispatch(d) == [ActNone EXCEPT !.type = "OscDispatch", !.data = d]

\* VtParser::new
VtParserNew ==
  [state |-> "Ground", params |-> << >>, current_param |-> 0,
   intermediates |-> << >>, osc_data |-> << >>]

\* result of one parser step: the parser after it and the action returned
Step(p, a) == [p |-> p, a |-> a]

\* a clear that leaves the OSC payload in place
clear_keeps_osc(p) ==
  [p EXCEPT !.params = << >>, !.current_param = 0, !.intermediates = << >>]

\* a clear that leaves the collected parameters in place
clear_keeps_params(p) ==
  [p EXCEPT !.current_param = 0, !.intermediates = << >>,
            !.osc_data = << >>]

\* VtParser::clear
clear(p) ==
  [p EXCEPT !.params = << >>, !.current_param = 0, !.intermediates = << >>,
            !.osc_data = << >>]

ground(p, byte) ==
  IF byte <= 31 THEN Step(p, ActExecute(byte))
  ELSE IF byte <= 126 THEN Step(p, ActPrint(byte))
  ELSE IF byte = 127 THEN Step(p, ActNone)
  ELSE Step(p, ActPrint(REPLACEMENT_CHARACTER))

escape(p, byte) ==
  IF byte >= 32 /\ byte <= 47
    THEN Step([p EXCEPT !.intermediates = Append(@, byte),
                        !.state = "EscapeIntermediate"], ActNone)
  ELSE IF byte = 91
    THEN Step([clear(p) EXCEPT !.state = "CsiEntry"], ActNone)
  ELSE IF byte = 93
    THEN Step([p EXCEPT !.osc_data = << >>, !.state = "OscString"], ActNone)
  ELSE IF byte >= 48 /\ byte <= 126
    THEN Step([p EXCEPT !.state = "Ground"],
              ActEscDispatch(byte, p.intermediates))
  ELSE Step(p, ActNone)

escape_intermediate(p, byte) ==
  IF byte >= 32 /\ byte <= 47
    THEN Step([p EXCEPT !.intermediates = Append(@, byte)], ActNone)
  ELSE IF byte >= 48 /\ byte <= 126
    THEN Step([p EXCEPT !.state = "Ground"],
              ActEscDispatch(byte, p.intermediates))
  ELSE Step(p, ActNone)

csi_entry(p, byte) ==
  IF byte >= 48 /\ byte <= 57
    THEN Step([p EXCEPT !.current_param = byte - 48, !.state = "CsiParam"],
              ActNone)
  ELSE IF byte = 59
    THEN Step([p EXCEPT !.params = Append(@, 0), !.state = "CsiParam"],
              ActNone)
  ELSE IF byte >= 60 /\ byte <= 63
    THEN Step([p EXCEPT !.intermediates = Append(@, byte),
                        !.state = "CsiParam"], ActNone)
  ELSE IF byte >= 32 /\ byte <= 47
    THEN Step([p EXCEPT !.intermediates = Append(@, byte),
                        !.state = "CsiIntermediate"], ActNone)
  ELSE IF byte >= 64 /\ byte <= 126
    THEN Step([p EXCEPT !.state = "Ground"],
              ActCsiDispatch(byte, p.params, p.intermediates))
  ELSE Step(p, ActNone)

\* an accumulation that wraps modulo 2^16
SatMulAdd_wrapping(cur, d) == (cur * 10 + d) % (U16_MAX + 1)

\* u16::saturating_mul(10).saturating_add(d)
SatMulAdd(cur, d) == Min(Min(cur * 10, U16_MAX) + d, U16_MAX)

csi_param(p, byte) ==
  IF byte >= 48 /\ byte <= 57
    THEN Step([p EXCEPT !.current_param = SatMulAdd(@, byte - 48)], ActNone)
  ELSE IF byte = 59
    THEN Step([p EXCEPT !.params = Append(@, p.current_param),
                        !.current_param = 0], ActNone)
  ELSE IF byte >= 32 /\ byte <= 47
    THEN Step([p EXCEPT !.params = Append(@, p.current_param),
                        !.intermediates = Append(@, byte),
                        !.state = "CsiIntermediate"], ActNone)
  ELSE IF byte >= 64 /\ byte <= 126
    THEN Step([p EXCEPT !.params = Append(@, p.current_param),
                        !.state = "Ground"],
              ActCsiDispatch(byte, Append(p.params, p.current_param),
                             p.intermediates))
  ELSE Step([p EXCEPT !.state = "CsiIgnore"], ActNone)

csi_intermediate(p, byte) ==
  IF byte >= 32 /\ byte <= 47
    THEN Step([p EXCEPT !.intermediates = Append(@, byte)], ActNone)
  ELSE IF byte >= 64 /\ byte <= 126
    THEN Step([p EXCEPT !.state = "Ground"],
              ActCsiDispatch(byte, p.params, p.intermediates))
  ELSE Step([p EXCEPT !.state = "CsiIgnore"], ActNone)

csi_ignore(p, byte) ==
  IF byte >= 64 /\ byte <= 126
    THEN Step([p EXCEPT !.state = "Ground"], ActNone)
  ELSE Step(p, ActNone)

osc_string(p, byte) ==
  IF byte = 7 \/ byte = 156
    THEN Step([p EXCEPT !.state = "Ground"], ActOscDispatch(p.osc_data))
  ELSE Step([p EXCEPT !.osc_data = Append(@, byte)], ActNone)

\* an advance whose CAN and SUB terminate an OSC string as BEL does
advance_cancel_dispatches(p, byte) ==
  IF (byte = 24 \/ byte = 26) /\ p.state = "OscString"
    THEN Step([p EXCEPT !.state = "Ground"], ActOscDispatch(p.osc_data))
  ELSE IF byte = 24 \/ byte = 26
    THEN Step([p EXCEPT !.state = "Ground"], ActExecute(byte))
  ELSE IF byte = 27
    THEN Step([clear(p) EXCEPT !.state = "Escape"], ActNone)
  ELSE CASE p.state = "Ground" -> ground(p, byte)
         [] p.state = "Escape" -> escape(p, byte)
         [] p.state = "EscapeIntermediate" -> escape_intermediate(p, byte)
         [] p.state = "CsiEntry" -> csi_entry(p, byte)
         [] p.state = "CsiParam" -> csi_param(p, byte)
         [] p.state = "CsiIntermediate" -> csi_intermediate(p, byte)
         [] p.state = "CsiIgnore" -> csi_ignore(p, byte)
         [] p.state = "OscString" -> osc_string(p, byte)
         [] OTHER -> Step(p, ActNone)

\* VtParser::advance: the anywhere transitions, then the state's handler
advance(p, byte) ==
  IF byte = 24 \/ byte = 26
    THEN Step([p EXCEPT !.state = "Ground"], ActExecute(byte))
  ELSE IF byte = 27
    THEN Step([clear(p) EXCEPT !.state = "Escape"], ActNone)
  ELSE CASE p.state = "Ground" -> ground(p, byte)
         [] p.state = "Escape" -> escape(p, byte)
         [] p.state = "EscapeIntermediate" -> escape_intermediate(p, byte)
         [] p.state = "CsiEntry" -> csi_entry(p, byte)
         [] p.state = "CsiParam" -> csi_param(p, byte)
         [] p.state = "CsiIntermediate" -> csi_intermediate(p, byte)
         [] p.state = "CsiIgnore" -> csi_ignore(p, byte)
         [] p.state = "OscString" -> osc_string(p, byte)
         [] OTHER -> Step(p, ActNone)

\* VtParser::feed: the actions other than None that the parser p returns for
\* the bytes of data
RECURSIVE feed(_, _)
feed(p, data) ==
  IF Len(data) = 0 THEN << >>
  ELSE LET r == advance(p, Head(data))
       IN (IF r.a.type = "None" THEN << >> ELSE <<r.a>>)
            \o feed(r.p, Tail(data))

\* ------------------------------------------------------------------------
\* core/utf8.rs
\* ------------------------------------------------------------------------

\* Utf8Decoder::new
Utf8DecoderNew == [buf |-> <<0, 0, 0, 0>>, len |-> 0, expected |-> 0]

IsContinuation(byte) == byte >= 128 /\ byte <= 191

\* number of bytes the lead byte announces, 0 when it is not a lead
LeadLength(byte) ==
  IF byte >= 192 /\ byte <= 223 THEN 2
  ELSE IF byte >= 224 /\ byte <= 239 THEN 3
  ELSE IF byte >= 240 /\ byte <= 247 THEN 4
  ELSE 0

\* the scalar value without the payload bits of a three-byte lead
RawScalar_lead_dropped(buf, n) ==
  CASE n = 2 -> (buf[1] % 32) * 64 + (buf[2] % 64)
    [] n = 3 -> (buf[2] % 64) * 64 + (buf[3] % 64)
    [] n = 4 -> (buf[1] % 8) * 262144 + (buf[2] % 64) * 4096
                + (buf[3] % 64) * 64 + (buf[4] % 64)
    [] OTHER -> buf[1]

\* the scalar value that the bit pattern of the n buffered bytes carries
RawScalar(buf, n) ==
  CASE n = 2 -> (buf[1] % 32) * 64 + (buf[2] % 64)
    [] n = 3 -> (buf[1] % 16) * 4096 + (buf[2] % 64) * 64 + (buf[3] % 64)
    [] n = 4 -> (buf[1] % 8) * 262144 + (buf[2] % 64) * 4096
                + (buf[3] % 64) * 64 + (buf[4] % 64)
    [] OTHER -> buf[1]

\* std::str::from_utf8 on a lead and n - 1 continuation bytes: it rejects
\* overlong forms, surrogates and values above U+10FFFF
ValidScalar(buf, n) ==
  LET v == RawScalar(buf, n)
  IN CASE n = 2 -> v >= 128
       [] n = 3 -> v >= 2048 /\ ~(v >= 55296 /\ v <= 57343)
       [] n = 4 -> v >= 65536 /\ v <= 1114111
       [] OTHER -> FALSE

\* from_utf8(..).ok().and_then(..).unwrap_or(REPLACEMENT_CHARACTER)
DecodeBuf(buf, n) ==
  IF ValidScalar(buf, n) THEN RawScalar(buf, n) ELSE REPLACEMENT_CHARACTER

\* result of one decoder step: the decoder after it and the Option<char>
Fed(d, out) == [d |-> d, out |-> out]

\* Utf8Decoder::feed with expected = 0 (start of a new sequence)
utf8_feed_start(d, byte) ==
  IF byte < 128 THEN Fed(d, Some(byte))
  ELSE IF LeadLength(byte) = 0 THEN Fed(d, Some(REPLACEMENT_CHARACTER))
  ELSE Fed([d EXCEPT !.expected = LeadLength(byte), !.buf[1] = byte,
                     !.len = 1], None)

\* Utf8Decoder::feed
utf8_feed(d, byte) ==
  IF d.expected = 0 THEN utf8_feed_start(d, byte)
  ELSE IF IsContinuation(byte)
    THEN LET buf == [d.buf EXCEPT ![d.len + 1] = byte]
             len == d.len + 1
         IN IF len = d.expected
              THEN Fed([buf |-> buf, len |-> 0, expected |-> 0],
                       Some(DecodeBuf(buf, len)))
              ELSE Fed([d EXCEPT !.buf = buf, !.len = len], None)
  ELSE LET idle == [d EXCEPT !.expected = 0, !.len = 0]
       IN IF byte >= 128
            THEN Fed(utf8_feed_start(idle, byte).d,
                     Some(REPLACEMENT_CHARACTER))
            ELSE Fed(idle, Some(REPLACEMENT_CHARACTER))

is_pending(d) == d.expected > 0

InRanges(cp, ranges) == \E r \in ranges : cp >= r[1] /\ cp <= r[2]

ZeroWidthRanges ==
  { <<0, 31>>, <<127, 159>>, <<768, 879>>, <<1155, 1161>>, <<1425, 1469>>,
    <<1471, 1471>>, <<1473, 1474>>, <<1476, 1477>>, <<1479, 1479>>,
    <<1552, 1562>>, <<1611, 1631>>, <<1648, 1648>>, <<65024, 65039>>,
    <<8203, 8207>>, <<8232, 8238>>, <<8288, 8292>>, <<65279, 65279>> }

WideRanges ==
  { <<4352, 4447>>, <<11904, 12350>>, <<12353, 13247>>, <<13312, 19903>>,
    <<19968, 42191>>, <<43360, 43388>>, <<44032, 55203>>, <<63744, 64255>>,
    <<65072, 65135>>, <<65281, 65376>>, <<65504, 65510>>,
    <<131072, 196605>>, <<196608, 262141>>,
    <<127744, 129535>>, <<129536, 129647>>, <<129648, 129791>> }

char_width(cp) ==
  IF InRanges(cp, ZeroWidthRanges) THEN 0
  ELSE IF InRanges(cp, WideRanges) THEN 2
  ELSE 1

\* ------------------------------------------------------------------------
\* core/grid.rs
\* ------------------------------------------------------------------------

BOLD == "BOLD"

DIM == "DIM"

ITALIC == "ITALIC"

UNDERLINE == "UNDERLINE"

INVERSE == "INVERSE"

HIDDEN == "HIDDEN"

STRIKETHROUGH == "STRIKETHROUGH"

\* CellAttr::empty()
AttrEmpty == { }

\* Color::DEFAULT_FG and Color::DEFAULT_BG, as <<r, g, b>>
DEFAULT_FG == <<204, 204, 204>>

DEFAULT_BG == <<0, 0, 0>>

SPACE == 32

NUL == 0

MkCell(ch, attr, fg, bg) == [ch |-> ch, attr |-> attr, fg |-> fg, bg |-> bg]

\* Cell::default()
CellDefault == MkCell(SPACE, AttrEmpty, DEFAULT_FG, DEFAULT_BG)

DEFAULT_SCROLLBACK_MAX == 10000

\* Grid::new
GridNew(cols, rows) ==
  [cols |-> cols, rows |-> rows, cells |-> Fill(cols * rows, CellDefault),
   scrollback |-> << >>, scrollback_max |-> DEFAULT_SCROLLBACK_MAX,
   cursor_row |-> 0, cursor_col |-> 0]

\* Grid::set_scrollback_max (called by ffi.rs term_session_new)
set_scrollback_max(g, max) == [g EXCEPT !.scrollback_max = max]

\* zero-based position of (row, col) in the row-major cell vector
CellIndex(g, row, col) == row * g.cols + col

\* whether the zero-based position i exists in the cell vector
InCells(g, i) == i >= 0 /\ i < Len(g.cells)

\* self.cells[i]; the value is unused where the index is out of range
CellAt(g, i) == IF InCells(g, i) THEN g.cells[i + 1] ELSE CellDefault

\* Grid::cell
cell(g, row, col) == CellAt(g, CellIndex(g, row, col))

\* the cell vector with f(row, col) written to every position for which
\* touched(row, col) holds
MapCells(g, touched(_, _), f(_, _)) ==
  [i \in 1..Len(g.cells) |->
     LET row == (i - 1) \div g.cols
         col == (i - 1) % g.cols
     IN IF touched(row, col) THEN f(row, col) ELSE g.cells[i]]

\* *self.cell_mut(row, col) = c
set_cell(g, row, col, c) ==
  LET i == CellIndex(g, row, col)
  IN IF InCells(g, i) THEN [g EXCEPT !.cells[i + 1] = c] ELSE g

\* the cells of row r, left to right
RowCells(g, r) == [c \in 1..g.cols |-> cell(g, r, c - 1)]

\* the push without the eviction
push_scrollback_unbounded(g, line) == Append(g.scrollback, line)

\* a full scrollback keeps its lines and drops the new one
push_scrollback_evict_newest(g, line) ==
  IF Len(g.scrollback) >= g.scrollback_max THEN g.scrollback
  ELSE Append(g.scrollback, line)

\* scrollback.push(top_row) followed by the eviction of the oldest line
push_scrollback(g, line) ==
  LET sb == Append(g.scrollback, line)
  IN IF Len(sb) > g.scrollback_max THEN Tail(sb) ELSE sb

\* Grid::scroll_up
scroll_up(g) ==
  LET Touched(row, col) == TRUE
      Val(row, col) ==
        IF row < g.rows - 1 THEN cell(g, row + 1, col) ELSE CellDefault
  IN [g EXCEPT !.scrollback = push_scrollback(g, RowCells(g, 0)),
               !.cells = MapCells(g, Touched, Val)]

\* Grid::newline
newline(g) ==
  IF g.cursor_row + 1 >= g.rows
    THEN [scroll_up(g) EXCEPT !.cursor_col = 0]
    ELSE [g EXCEPT !.cursor_row = @ + 1, !.cursor_col = 0]

\* Grid::put_char
put_char(g, ch, attr, fg, bg) ==
  LET g1 == IF g.cursor_col >= g.cols
              THEN newline([g EXCEPT !.cursor_col = 0]) ELSE g
      g2 == set_cell(g1, g1.cursor_row, g1.cursor_col,
                     MkCell(ch, attr, fg, bg))
  IN [g2 EXCEPT !.cursor_col = @ + 1]

\* put_char indexes the cell under the cursor
put_char_ok(g) ==
  LET g1 == IF g.cursor_col >= g.cols
              THEN newline([g EXCEPT !.cursor_col = 0]) ELSE g
  IN InCells(g1, CellIndex(g1, g1.cursor_row, g1.cursor_col))

\* a resize that keeps the cells in their order in memory, so that the text
\* flows into the new width
grid_resize_reflow(g, cols, rows) ==
  [g EXCEPT
     !.cells = [i \in 1..(cols * rows) |-> CellAt(g, i - 1)],
     !.cols = cols, !.rows = rows,
     !.cursor_row = Min(g.cursor_row, rows - 1),
     !.cursor_col = Min(g.cursor_col, cols - 1)]

\* Grid::resize
grid_resize(g, cols, rows) ==
  [g EXCEPT
     !.cells = [i \in 1..(cols * rows) |->
                  LET r == (i - 1) \div cols
                      c == (i - 1) % cols
                  IN IF r < Min(g.rows, rows) /\ c < Min(g.cols, cols)
                       THEN g.cells[r * g.cols + c + 1] ELSE CellDefault],
     !.cols = cols, !.rows = rows,
     !.cursor_row = Min(g.cursor_row, rows - 1),
     !.cursor_col = Min(g.cursor_col, cols - 1)]

\* Grid::clear
grid_clear(g) ==
  [g EXCEPT !.cells = Fill(Len(g.cells), CellDefault),
            !.cursor_row = 0, !.cursor_col = 0]

\* Grid::erase_line_right
erase_line_right(g) ==
  LET Touched(row, col) == row = g.cursor_row /\ col >= g.cursor_col
      Val(row, col) == CellDefault
  IN [g EXCEPT !.cells = MapCells(g, Touched, Val)]

erase_line_right_ok(g) ==
  \A col \in g.cursor_col..(g.cols - 1) :
     InCells(g, CellIndex(g, g.cursor_row, col))

\* Grid::erase_line_left
erase_line_left(g) ==
  LET Touched(row, col) ==
        row = g.cursor_row /\ col <= Min(g.cursor_col, g.cols - 1)
      Val(row, col) == CellDefault
  IN [g EXCEPT !.cells = MapCells(g, Touched, Val)]

erase_line_left_ok(g) ==
  \A col \in 0..Min(g.cursor_col, g.cols - 1) :
     InCells(g, CellIndex(g, g.cursor_row, col))

\* Grid::erase_below
erase_below(g) ==
  LET g1 == erase_line_right(g)
      Touched(row, col) == row > g.cursor_row
      Val(row, col) == CellDefault
  IN [g1 EXCEPT !.cells = MapCells(g1, Touched, Val)]

erase_below_ok(g) == erase_line_right_ok(g)

\* Grid::erase_above
erase_above(g) ==
  LET Touched(row, col) == row < g.cursor_row
      Val(row, col) == CellDefault
      g1 == [g EXCEPT !.cells = MapCells(g, Touched, Val)]
  IN erase_line_left(g1)

erase_above_ok(g) ==
  /\ \A row \in 0..(g.cursor_row - 1) : \A col \in 0..(g.cols - 1) :
        InCells(g, CellIndex(g, row, col))
  /\ erase_line_left_ok(g)

\* Grid::erase_line
erase_line(g) ==
  LET Touched(row, col) == row = g.cursor_row
      Val(row, col) == CellDefault
  IN [g EXCEPT !.cells = MapCells(g, Touched, Val)]

erase_line_ok(g) ==
  \A col \in 0..(g.cols - 1) : InCells(g, CellIndex(g, g.cursor_row, col))

\* Grid::scroll_region_up
scroll_region_up(g, top, bottom) ==
  LET Touched(row, col) == row >= top /\ row <= bottom
      Val(row, col) == IF row < bottom THEN cell(g, row + 1, col)
                       ELSE CellDefault
      Touched2(row, col) == row = bottom
      g1 == IF top = 0
              THEN [g EXCEPT !.scrollback = push_scrollback(g, RowCells(g, 0))]
              ELSE g
  IN IF top <= bottom
       THEN [g1 EXCEPT !.cells = MapCells(g, Touched, Val)]
       ELSE [g1 EXCEPT !.cells = MapCells(g, Touched2, Val)]

\* the last loop of scroll_region_up writes row `bottom`, the first one
\* reads rows top + 1 .. bottom
scroll_region_up_ok(g, top, bottom) ==
  \A col \in 0..(g.cols - 1) : InCells(g, CellIndex(g, bottom, col))

\* Grid::scroll_region_down
scroll_region_down(g, top, bottom) ==
  LET Touched(row, col) == row >= top /\ row <= bottom
      Val(row, col) == IF row > top THEN cell(g, row - 1, col)
                       ELSE CellDefault
      Touched2(row, col) == row = top
  IN IF top <= bottom
       THEN [g EXCEPT !.cells = MapCells(g, Touched, Val)]
       ELSE [g EXCEPT !.cells = MapCells(g, Touched2, Val)]

scroll_region_down_ok(g, top, bottom) ==
  /\ \A row \in (top + 1)..bottom : \A col \in 0..(g.cols - 1) :
        InCells(g, CellIndex(g, row, col))
  /\ \A col \in 0..(g.cols - 1) : InCells(g, CellIndex(g, top, col))

\* f applied n times to g, stopping early where f no longer changes g
RECURSIVE Repeat(_, _, _)
Repeat(f(_), g, n) ==
  IF n = 0 THEN g
  ELSE LET g1 == f(g)
       IN IF g1 = g THEN g ELSE Repeat(f, g1, n - 1)

\* Grid::insert_lines
insert_lines(g, at, n, bottom) ==
  LET Once(h) == IF at <= bottom THEN scroll_region_down(h, at, bottom) ELSE h
  IN Repeat(Once, g, n)

insert_lines_ok(g, at, n, bottom) ==
  n = 0 \/ at > bottom \/ scroll_region_down_ok(g, at, bottom)

\* Grid::delete_lines
delete_lines(g, at, n, bottom) ==
  LET Touched(row, col) == row >= at /\ row <= bottom
      Once(h) ==
        LET Val(row, col) == IF row < bottom THEN cell(h, row + 1, col)
                             ELSE CellDefault
        IN IF at <= bottom THEN [h EXCEPT !.cells = MapCells(h, Touched, Val)]
           ELSE h
  IN Repeat(Once, g, n)

delete_lines_ok(g, at, n, bottom) ==
  n = 0 \/ at > bottom
    \/ \A col \in 0..(g.cols - 1) : InCells(g, CellIndex(g, bottom, col))

\* Grid::delete_chars
delete_chars(g, n) ==
  LET Touched(row, col) == row = g.cursor_row /\ col >= g.cursor_col
      Val(row, col) == IF col + n < g.cols THEN cell(g, row, col + n)
                       ELSE CellDefault
  IN [g EXCEPT !.cells = MapCells(g, Touched, Val)]

\* Grid::insert_chars
insert_chars(g, n) ==
  LET Touched(row, col) == row = g.cursor_row /\ col >= g.cursor_col
      Val(row, col) == IF col >= g.cursor_col + n THEN cell(g, row, col - n)
                       ELSE CellDefault
  IN [g EXCEPT !.cells = MapCells(g, Touched, Val)]

\* delete_chars and insert_chars index the cells cursor_col .. cols - 1 of
\* the cursor row
shift_chars_ok(g) == erase_line_right_ok(g)

\* ------------------------------------------------------------------------
\* shell_integration.rs
\* ------------------------------------------------------------------------

MAX_HISTORY == 1000

\* ShellIntegration::new
ShellIntegrationNew ==
  [state |-> "Idle", commands |-> << >>, current_prompt_row |-> 0,
   current_command_row |-> 0, current_output_row |-> 0,
   current_command |-> << >>, command_start |-> None,
   working_dir |-> << >>, max_history |-> MAX_HISTORY]

\* whether s begins with the characters of pre
StartsWith(s, pre) ==
  Len(s) >= Len(pre) /\ \A i \in 1..Len(pre) : s[i] = pre[i]

\* s without its first n characters
Drop(s, n) == [i \in 1..(Len(s) - n) |-> s[i + n]]

IsDigit(c) == c >= 48 /\ c <= 57

\* value of a string of decimal digits
RECURSIVE DigitsValue(_)
DigitsValue(s) ==
  IF Len(s) = 0 THEN 0
  ELSE DigitsValue(Slice(s, 1, Len(s) - 1)) * 10 + (s[Len(s)] - 48)

\* s without its leading '0' characters
RECURSIVE StripZeros(_)
StripZeros(s) ==
  IF Len(s) > 0 /\ s[1] = 48 THEN StripZeros(Tail(s)) ELSE s

\* str::parse::<i32>().ok(): an optional sign, then one or more digits, the
\* value within the range of i32 (at most ten significant digits, compared
\* with 2147483647 resp. 2147483648 by the first nine digits and the last)
ParseI32(s) ==
  LET signed == Len(s) >= 1 /\ (s[1] = 43 \/ s[1] = 45)
      negative == signed /\ s[1] = 45
      digits == IF signed THEN Drop(s, 1) ELSE s
      sig == StripZeros(digits)
      hi == DigitsValue(Slice(sig, 1, 9))
      lo == sig[10] - 48
  IN IF Len(digits) = 0 \/ \E i \in 1..Len(digits) : ~IsDigit(digits[i])
       THEN None
     ELSE IF Len(sig) <= 9
       THEN Some(IF negative THEN 0 - DigitsValue(sig) ELSE DigitsValue(sig))
     ELSE IF Len(sig) > 10 \/ hi > 214748364 THEN None
     ELSE IF hi = 214748364 /\ lo > (IF negative THEN 8 ELSE 7) THEN None
     ELSE Some(IF negative THEN (0 - hi * 10) - lo ELSE hi * 10 + lo)

\* ShellIntegration::handle_osc133
handle_osc133(sh, param, cursor_row) ==
  IF Len(param) = 0 THEN sh
  ELSE IF param[1] = 65
    THEN [sh EXCEPT !.state = "Prompt", !.current_prompt_row = cursor_row]
  ELSE IF param[1] = 66
    THEN [sh EXCEPT !.state = "Command", !.current_command_row = cursor_row,
                    !.command_start = Some("Instant")]
  ELSE IF param[1] = 67
    THEN [sh EXCEPT !.state = "Output", !.current_output_row = cursor_row]
  ELSE IF param[1] = 68
    THEN LET exit_code == IF StartsWith(param, <<68, 59>>)
                            THEN ParseI32(Drop(param, 2)) ELSE None
             region ==
               [prompt_row |-> sh.current_prompt_row,
                command_row |-> sh.current_command_row,
                output_start_row |-> sh.current_output_row,
                output_end_row |-> Some(cursor_row),
                command_text |-> sh.current_command,
                exit_code |-> exit_code,
                duration |-> IF IsSome(sh.command_start)
                               THEN Some("Duration") ELSE None,
                working_dir |-> sh.working_dir]
             pushed == Append(sh.commands, region)
         IN [sh EXCEPT
               !.commands = IF Len(pushed) > sh.max_history
                              THEN Tail(pushed) ELSE pushed,
               !.state = "Idle", !.current_command = << >>,
               !.command_start = None]
  ELSE sh

\* position (1-based) of the first c in s, 0 when there is none
RECURSIVE FindFrom(_, _, _)
FindFrom(s, c, i) ==
  IF i > Len(s) THEN 0 ELSE IF s[i] = c THEN i ELSE FindFrom(s, c, i + 1)

\* "file://"
FILE_SCHEME == <<102, 105, 108, 101, 58, 47, 47>>

\* ShellIntegration::handle_osc7
handle_osc7(sh, data) ==
  IF StartsWith(data, FILE_SCHEME)
    THEN LET path == Drop(data, Len(FILE_SCHEME))
             idx == FindFrom(path, 47, 1)
         IN IF idx > 0 THEN [sh EXCEPT !.working_dir = Drop(path, idx - 1)]
            ELSE sh
    ELSE sh

\* ShellIntegration::prev_prompt: the records are searched from the most
\* recent one backwards, the first with prompt_row < current_row is taken
prev_prompt(sh, current_row) ==
  LET found == { i \in 1..Len(sh.commands) :
                   sh.commands[i].prompt_row < current_row }
  IN IF found = { } THEN None
     ELSE Some(sh.commands[CHOOSE i \in found :
                             \A j \in found : j <= i].prompt_row)

\* ShellIntegration::next_prompt: the records are searched from the oldest
\* one forwards, the first with prompt_row > current_row is taken
next_prompt(sh, current_row) ==
  LET found == { i \in 1..Len(sh.commands) :
                   sh.commands[i].prompt_row > current_row }
  IN IF found = { } THEN None
     ELSE Some(sh.commands[CHOOSE i \in found :
                             \A j \in found : i <= j].prompt_row)

\* the exit code of the oldest record instead of the most recent one
last_exit_code_first(sh) ==
  IF Len(sh.commands) = 0 THEN None
  ELSE sh.commands[1].exit_code

\* ShellIntegration::last_exit_code
last_exit_code(sh) ==
  IF Len(sh.commands) = 0 THEN None
  ELSE sh.commands[Len(sh.commands)].exit_code

\* ------------------------------------------------------------------------
\* String::from_utf8_lossy
\* ------------------------------------------------------------------------

\* whether b may follow the lead byte as the second byte of a sequence
SecondByteOk(lead, b) ==
  CASE lead = 224 -> b >= 160 /\ b <= 191
    [] lead = 237 -> b >= 128 /\ b <= 159
    [] lead = 240 -> b >= 144 /\ b <= 191
    [] lead = 244 -> b >= 128 /\ b <= 143
    [] OTHER -> IsContinuation(b)

\* length announced by a lead byte that can start a valid sequence, else 0
StrictLeadLength(b) ==
  IF b >= 194 /\ b <= 223 THEN 2
  ELSE IF b >= 224 /\ b <= 239 THEN 3
  ELSE IF b >= 240 /\ b <= 244 THEN 4
  ELSE 0

\* the characters of data from position i on: valid sequences decode, each
\* maximal invalid part becomes one U+FFFD
RECURSIVE LossyFrom(_, _)
LossyFrom(data, i) ==
  IF i > Len(data) THEN << >>
  ELSE LET b == data[i]
           n == StrictLeadLength(b)
           has(k) == i + k <= Len(data)
       IN IF b < 128 THEN <<b>> \o LossyFrom(data, i + 1)
          ELSE IF n = 0 \/ ~has(1) \/ ~SecondByteOk(b, data[i + 1])
            THEN <<REPLACEMENT_CHARACTER>> \o LossyFrom(data, i + 1)
          ELSE IF n = 2
            THEN <<RawScalar(Slice(data, i, i + 1), 2)>>
                   \o LossyFrom(data, i + 2)
          ELSE IF ~has(2) \/ ~IsContinuation(data[i + 2])
            THEN <<REPLACEMENT_CHARACTER>> \o LossyFrom(data, i + 2)
          ELSE IF n = 3
            THEN <<RawScalar(Slice(data, i, i + 2), 3)>>
                   \o LossyFrom(data, i + 3)
          ELSE IF ~has(3) \/ ~IsContinuation(data[i + 3])
            THEN <<REPLACEMENT_CHARACTER>> \o LossyFrom(data, i + 3)
          ELSE <<RawScalar(Slice(data, i, i + 3), 4)>>
                 \o LossyFrom(data, i + 4)

\* (valid UTF-8 is borrowed as it is; all that matters of it here is ASCII)
from_utf8_lossy(data) ==
  IF \A i \in 1..Len(data) : data[i] < 128 THEN data ELSE LossyFrom(data, 1)

\* ------------------------------------------------------------------------
\* security.rs
\* ------------------------------------------------------------------------

\* sanitize_osc, `.take(4096)`: the cap on the length of a title
SANITIZE_OSC_CAP == 4096

\* ------------------------------------------------------------------------
\* core/handler.rs
\* ------------------------------------------------------------------------

ANSI_COLORS ==
  << <<0, 0, 0>>, <<205, 49, 49>>, <<13, 188, 121>>, <<229, 229, 16>>,
     <<36, 114, 200>>, <<188, 63, 188>>, <<17, 168, 205>>, <<204, 204, 204>>,
     <<102, 102, 102>>, <<241, 76, 76>>, <<35, 209, 139>>, <<245, 245, 67>>,
     <<59, 142, 234>>, <<214, 112, 214>>, <<41, 184, 219>>,
     <<242, 242, 242>> >>

\* the tab stops Terminal::new and Terminal::resize build: every 8th column
DefaultTabStops(cols) == [i \in 1..cols |-> (i - 1) % 8 = 0]

\* Terminal::new
TerminalNew(cols, rows) ==
  [grid |-> GridNew(cols, rows), utf8 |-> Utf8DecoderNew,
   attr |-> AttrEmpty, fg |-> DEFAULT_FG, bg |-> DEFAULT_BG,
   saved_cursor |-> <<0, 0>>, saved_attr |-> AttrEmpty,
   saved_fg |-> DEFAULT_FG, saved_bg |-> DEFAULT_BG,
   alt_grid |-> None, tab_stops |-> DefaultTabStops(cols),
   origin_mode |-> FALSE, auto_wrap |-> TRUE,
   scroll_top |-> 0, scroll_bottom |-> rows - 1,
   title |-> << >>, write_back |-> << >>,
   cursor_keys_app |-> FALSE, cursor_visible |-> TRUE,
   bracketed_paste |-> FALSE, mouse_mode |-> "Off",
   mouse_encoding |-> "X10", keypad_app |-> FALSE,
   osc7_cwd |-> None, osc133_data |-> None, osc52_data |-> None,
   shell |-> ShellIntegrationNew, panicked |-> FALSE]

\* the thread panics: the call never returns and nothing runs afterwards
Panic(t) == [t EXCEPT !.panicked = TRUE]

\* a grid operation whose indexes are all in range replaces the grid
GridOp(t, ok, g) == IF ok THEN [t EXCEPT !.grid = g] ELSE Panic(t)

\* index without the test against the last row of the grid
index_unchecked(t) ==
  IF t.panicked THEN t
  ELSE IF t.grid.cursor_row = t.scroll_bottom
    THEN GridOp(t, scroll_region_up_ok(t.grid, t.scroll_top, t.scroll_bottom),
                scroll_region_up(t.grid, t.scroll_top, t.scroll_bottom))
  ELSE [t EXCEPT !.grid.cursor_row = @ + 1]

\* Terminal::index
index(t) ==
  IF t.panicked THEN t
  ELSE IF t.grid.cursor_row = t.scroll_bottom
    THEN GridOp(t, scroll_region_up_ok(t.grid, t.scroll_top, t.scroll_bottom),
                scroll_region_up(t.grid, t.scroll_top, t.scroll_bottom))
  ELSE IF t.grid.cursor_row < t.grid.rows - 1
    THEN [t EXCEPT !.grid.cursor_row = @ + 1]
  ELSE t

\* Terminal::reverse_index
reverse_index(t) ==
  IF t.grid.cursor_row = t.scroll_top
    THEN GridOp(t,
                scroll_region_down_ok(t.grid, t.scroll_top, t.scroll_bottom),
                scroll_region_down(t.grid, t.scroll_top, t.scroll_bottom))
  ELSE IF t.grid.cursor_row > 0
    THEN [t EXCEPT !.grid.cursor_row = @ - 1]
  ELSE t

\* Terminal::print, "Auto-wrap": a cursor in the pending-wrap column
print_wrap(t) ==
  IF t.grid.cursor_col >= t.grid.cols
    THEN IF t.auto_wrap
           THEN index([t EXCEPT !.grid.cursor_col = 0])
           ELSE [t EXCEPT !.grid.cursor_col = t.grid.cols - 1]
    ELSE t

\* a wrap of the wide character that writes no padding cell
print_wide_room_no_pad(t, width) ==
  IF t.panicked THEN t
  ELSE IF width = 2 /\ t.grid.cursor_col + 1 >= t.grid.cols
    THEN IF t.auto_wrap
           THEN index([t EXCEPT !.grid.cursor_col = 0])
           ELSE IF t.grid.cols < 2 THEN Panic(t)
                ELSE [t EXCEPT !.grid.cursor_col = t.grid.cols - 2]
    ELSE t

\* Terminal::print, "For wide chars, check if there's room"
print_wide_room(t, width) ==
  IF t.panicked THEN t
  ELSE IF width = 2 /\ t.grid.cursor_col + 1 >= t.grid.cols
    THEN IF t.auto_wrap
           THEN LET t1 == GridOp(t, put_char_ok(t.grid),
                                 put_char(t.grid, SPACE, t.attr, t.fg, t.bg))
                IN IF t1.panicked THEN t1
                   ELSE index([t1 EXCEPT !.grid.cursor_col = 0])
           ELSE IF t.grid.cols < 2 THEN Panic(t)
                ELSE [t EXCEPT !.grid.cursor_col = t.grid.cols - 2]
    ELSE t

\* Terminal::print, the put_char of the character
print_place(t, ch) ==
  IF t.panicked THEN t
  ELSE GridOp(t, put_char_ok(t.grid), put_char(t.grid, ch, t.attr, t.fg, t.bg))

\* Terminal::print, "Wide char occupies two cells"
print_wide_tail(t, width) ==
  IF t.panicked THEN t
  ELSE IF width = 2 /\ t.grid.cursor_col < t.grid.cols
    THEN LET g == t.grid
             g1 == set_cell(g, g.cursor_row, g.cursor_col,
                            MkCell(NUL, t.attr, t.fg, t.bg))
         IN GridOp(t, InCells(g, CellIndex(g, g.cursor_row, g.cursor_col)),
                   [g1 EXCEPT !.cursor_col = @ + 1])
    ELSE t

\* a print that leaves the cursor where put_char left it
print_clamp_none(t) == t

\* Terminal::print, "Clamp cursor when auto-wrap is off"
print_clamp(t) ==
  IF t.panicked THEN t
  ELSE IF ~t.auto_wrap /\ t.grid.cursor_col >= t.grid.cols
    THEN [t EXCEPT !.grid.cursor_col = t.grid.cols - 1]
  ELSE t

\* Terminal::print
print(t, ch) ==
  LET width == char_width(ch)
  IN IF t.panicked \/ width = 0 THEN t
     ELSE print_clamp(
            print_wide_tail(
              print_place(print_wide_room(print_wrap(t), width), ch), width))

\* a tabulation that stays on a stop under the cursor
next_tab_stop_inclusive(t, col) ==
  LET later == {i \in col..(Len(t.tab_stops) - 1) : t.tab_stops[i + 1]}
  IN IF later = { } THEN t.grid.cols - 1
     ELSE CHOOSE i \in later : \A j \in later : i <= j

\* a tabulation that, with no stop left, goes one column past the last
next_tab_stop_past_margin(t, col) ==
  LET later == {i \in (col + 1)..(Len(t.tab_stops) - 1) : t.tab_stops[i + 1]}
  IN IF later = { } THEN t.grid.cols
     ELSE CHOOSE i \in later : \A j \in later : i <= j

\* the first tab stop right of col, cols - 1 when there is none
next_tab_stop(t, col) ==
  LET later == {i \in (col + 1)..(Len(t.tab_stops) - 1) : t.tab_stops[i + 1]}
  IN IF later = { } THEN t.grid.cols - 1
     ELSE CHOOSE i \in later : \A j \in later : i <= j

\* the last tab stop left of col, 0 when there is none
prev_tab_stop(t, col) ==
  LET before == {i \in 0..(col - 1) : t.tab_stops[i + 1]}
  IN IF before = { } THEN 0
     ELSE CHOOSE i \in before : \A j \in before : i >= j

\* Terminal::execute
execute(t, byte) ==
  CASE byte = 8 ->
         IF t.grid.cursor_col > 0 THEN [t EXCEPT !.grid.cursor_col = @ - 1]
         ELSE t
    [] byte = 9 ->
         [t EXCEPT !.grid.cursor_col = next_tab_stop(t, t.grid.cursor_col)]
    [] byte \in {10, 11, 12} -> index(t)
    [] byte = 13 -> [t EXCEPT !.grid.cursor_col = 0]
    [] OTHER -> t

\* param(params, idx, default)
param(params, idx, default) ==
  IF idx < Len(params) /\ params[idx + 1] # 0 THEN params[idx + 1]
  ELSE default

\* a cube whose axis values are spread evenly over 0..255
color_from_256_even_cube(idx) ==
  IF idx <= 15 THEN ANSI_COLORS[idx + 1]
  ELSE IF idx <= 231
    THEN LET i == idx - 16
         IN <<51 * ((i \div 36) % 6), 51 * ((i \div 6) % 6), 51 * (i % 6)>>
  ELSE IF idx <= 255
    THEN LET v == (8 + 10 * (idx - 232)) % 256 IN <<v, v, v>>
  ELSE DEFAULT_FG

\* color_from_256
color_from_256(idx) ==
  IF idx <= 15 THEN ANSI_COLORS[idx + 1]
  ELSE IF idx <= 231
    THEN LET i == idx - 16
             to_val(v) == IF v = 0 THEN 0 ELSE (55 + 40 * v) % 256
         IN <<to_val((i \div 36) % 6), to_val((i \div 6) % 6), to_val(i % 6)>>
  ELSE IF idx <= 255
    THEN LET v == (8 + 10 * (idx - 232)) % 256 IN <<v, v, v>>
  ELSE DEFAULT_FG

\* parse_extended_color: None, or Some(<<color, params consumed>>)
parse_extended_color(params, start) ==
  IF start >= Len(params) THEN None
  ELSE IF params[start + 1] = 5
    THEN IF start + 1 >= Len(params) THEN None
         ELSE Some(<<color_from_256(params[start + 2]), 2>>)
  ELSE IF params[start + 1] = 2
    THEN IF start + 3 >= Len(params) THEN None
         ELSE Some(<< <<params[start + 2] % 256, params[start + 3] % 256,
                        params[start + 4] % 256>>, 4 >>)
  ELSE None

\* a reset of the attributes and the foreground only
sgr_reset_keeps_bg(t) == [t EXCEPT !.attr = AttrEmpty, !.fg = DEFAULT_FG]

\* Terminal::sgr_reset
sgr_reset(t) ==
  [t EXCEPT !.attr = AttrEmpty, !.fg = DEFAULT_FG, !.bg = DEFAULT_BG]

\* one iteration of the loop of handle_sgr: <<terminal, next i>>
sgr_param(t, params, i) ==
  LET v == params[i + 1]
      ext == parse_extended_color(params, i + 1)
  IN CASE v = 0 -> <<sgr_reset(t), i + 1>>
       [] v = 1 -> <<[t EXCEPT !.attr = @ \cup {BOLD}], i + 1>>
       [] v = 2 -> <<[t EXCEPT !.attr = @ \cup {DIM}], i + 1>>
       [] v = 3 -> <<[t EXCEPT !.attr = @ \cup {ITALIC}], i + 1>>
       [] v = 4 -> <<[t EXCEPT !.attr = @ \cup {UNDERLINE}], i + 1>>
       [] v = 7 -> <<[t EXCEPT !.attr = @ \cup {INVERSE}], i + 1>>
       [] v = 8 -> <<[t EXCEPT !.attr = @ \cup {HIDDEN}], i + 1>>
       [] v = 9 -> <<[t EXCEPT !.attr = @ \cup {STRIKETHROUGH}], i + 1>>
       [] v = 22 -> <<[t EXCEPT !.attr = @ \ {BOLD, DIM}], i + 1>>
       [] v = 23 -> <<[t EXCEPT !.attr = @ \ {ITALIC}], i + 1>>
       [] v = 24 -> <<[t EXCEPT !.attr = @ \ {UNDERLINE}], i + 1>>
       [] v = 27 -> <<[t EXCEPT !.attr = @ \ {INVERSE}], i + 1>>
       [] v = 28 -> <<[t EXCEPT !.attr = @ \ {HIDDEN}], i + 1>>
       [] v = 29 -> <<[t EXCEPT !.attr = @ \ {STRIKETHROUGH}], i + 1>>
       [] v >= 30 /\ v <= 37 ->
            <<[t EXCEPT !.fg = ANSI_COLORS[v - 30 + 1]], i + 1>>
       [] v = 38 ->
            IF IsSome(ext)
              THEN <<[t EXCEPT !.fg = ext[1][1]], i + ext[1][2] + 1>>
              ELSE <<t, i + 1>>
       [] v = 39 -> <<[t EXCEPT !.fg = DEFAULT_FG], i + 1>>
       [] v >= 90 /\ v <= 97 ->
            <<[t EXCEPT !.fg = ANSI_COLORS[v - 90 + 8 + 1]], i + 1>>
       [] v >= 40 /\ v <= 47 ->
            <<[t EXCEPT !.bg = ANSI_COLORS[v - 40 + 1]], i + 1>>
       [] v = 48 ->
            IF IsSome(ext)
              THEN <<[t EXCEPT !.bg = ext[1][1]], i + ext[1][2] + 1>>
              ELSE <<t, i + 1>>
       [] v = 49 -> <<[t EXCEPT !.bg = DEFAULT_BG], i + 1>>
       [] v >= 100 /\ v <= 107 ->
            <<[t EXCEPT !.bg = ANSI_COLORS[v - 100 + 8 + 1]], i + 1>>
       [] OTHER -> <<t, i + 1>>

\* the while loop of handle_sgr from index i on
RECURSIVE sgr_loop(_, _, _)
sgr_loop(t, params, i) ==
  IF i >= Len(params) THEN t
  ELSE LET r == sgr_param(t, params, i) IN sgr_loop(r[1], params, r[2])

\* Terminal::handle_sgr
handle_sgr(t, params) ==
  IF Len(params) = 0 THEN sgr_reset(t) ELSE sgr_loop(t, params, 0)

\* the save of cursor and SGR (ESC 7, CSI s, DECSET 1048 / 1049)
save_cursor(t) ==
  [t EXCEPT !.saved_cursor = <<t.grid.cursor_row, t.grid.cursor_col>>,
            !.saved_attr = t.attr, !.saved_fg = t.fg, !.saved_bg = t.bg]

\* a restore of the cursor position alone
restore_cursor_position_only(t) ==
  [t EXCEPT !.grid.cursor_row = Min(t.saved_cursor[1], t.grid.rows - 1),
            !.grid.cursor_col = Min(t.saved_cursor[2], t.grid.cols - 1)]

\* the restore of cursor and SGR (ESC 8, CSI u, DECRST 1048 / 1049)
restore_cursor(t) ==
  [t EXCEPT !.grid.cursor_row = Min(t.saved_cursor[1], t.grid.rows - 1),
            !.grid.cursor_col = Min(t.saved_cursor[2], t.grid.cols - 1),
            !.attr = t.saved_attr, !.fg = t.saved_fg, !.bg = t.saved_bg]

\* set_dec_mode, modes 47 and 1047, enable: a fresh grid becomes visible
enter_alt_screen(t) ==
  [t EXCEPT !.grid = GridNew(t.grid.cols, t.grid.rows),
            !.alt_grid = Some(t.grid)]

\* set_dec_mode, modes 47 and 1047, disable: alt_grid.take()
leave_alt_screen(t) ==
  IF IsSome(t.alt_grid)
    THEN [t EXCEPT !.grid = t.alt_grid[1], !.alt_grid = None]
    ELSE t

\* one iteration of the loop of set_dec_mode
dec_mode(t, p, enable) ==
  CASE p = 1 -> [t EXCEPT !.cursor_keys_app = enable]
    [] p = 6 -> [t EXCEPT !.origin_mode = enable]
    [] p = 7 -> [t EXCEPT !.auto_wrap = enable]
    [] p = 25 -> [t EXCEPT !.cursor_visible = enable]
    [] p = 9 -> [t EXCEPT !.mouse_mode = IF enable THEN "X10" ELSE "Off"]
    [] p = 1000 ->
         [t EXCEPT !.mouse_mode = IF enable THEN "Normal" ELSE "Off"]
    [] p = 1002 ->
         [t EXCEPT !.mouse_mode = IF enable THEN "Button" ELSE "Off"]
    [] p = 1003 -> [t EXCEPT !.mouse_mode = IF enable THEN "Any" ELSE "Off"]
    [] p = 1006 ->
         [t EXCEPT !.mouse_encoding = IF enable THEN "Sgr" ELSE "X10"]
    [] p = 47 \/ p = 1047 ->
         IF enable THEN enter_alt_screen(t) ELSE leave_alt_screen(t)
    [] p = 1048 -> IF enable THEN save_cursor(t) ELSE restore_cursor(t)
    [] p = 1049 ->
         IF enable THEN enter_alt_screen(save_cursor(t))
         ELSE IF IsSome(t.alt_grid) THEN restore_cursor(leave_alt_screen(t))
         ELSE t
    [] p = 2004 -> [t EXCEPT !.bracketed_paste = enable]
    [] OTHER -> t

\* Terminal::set_dec_mode
RECURSIVE set_dec_mode(_, _, _)
set_dec_mode(t, params, enable) ==
  IF Len(params) = 0 THEN t
  ELSE set_dec_mode(dec_mode(t, Head(params), enable), Tail(params), enable)

\* Terminal::set_ansi_mode: no mode has an effect
set_ansi_mode(t, params, enable) == t

\* decimal digits of n (format!("{}", n)), as bytes
RECURSIVE Decimal(_)
Decimal(n) ==
  IF n < 10 THEN <<48 + n>> ELSE Decimal(n \div 10) \o <<48 + (n % 10)>>

\* CSI I (CHT): one forward tabulation
cht_once(t) ==
  [t EXCEPT !.grid.cursor_col = next_tab_stop(t, t.grid.cursor_col)]

\* CSI Z (CBT): one backward tabulation.  tab_stops.len() - col is below
\* zero when col > tab_stops.len(): a build with overflow checks panics, a
\* build without them wraps, skips every stop and takes unwrap_or(0)
cbt_once(t, overflow_checks) ==
  IF t.panicked THEN t
  ELSE IF t.grid.cursor_col > Len(t.tab_stops)
    THEN IF overflow_checks THEN Panic(t)
         ELSE [t EXCEPT !.grid.cursor_col = 0]
  ELSE [t EXCEPT !.grid.cursor_col = prev_tab_stop(t, t.grid.cursor_col)]

\* the end of the erased range without the clamp to the row
ech_end_unclamped(col, n, cols) == col + n

\* CSI X (ECH): the column after the last erased one
ech_end(col, n, cols) == Min(col + n, cols)

\* CSI X (ECH)
erase_chars(t, n) ==
  LET g == t.grid
      last == ech_end(g.cursor_col, n, g.cols) - 1
      Hit == {CellIndex(g, g.cursor_row, c) : c \in g.cursor_col..last}
  IN GridOp(t, \A i \in Hit : InCells(g, i),
            [g EXCEPT !.cells =
               [i \in 1..Len(g.cells) |->
                  IF (i - 1) \in Hit THEN CellDefault ELSE g.cells[i]]])

\* CSI b (REP)
repeat_char(t, n) ==
  IF t.grid.cursor_col > 0
    THEN LET g == t.grid
             i == CellIndex(g, g.cursor_row, g.cursor_col - 1)
             ch == CellAt(g, i).ch
             Once(u) == print(u, ch)
         IN IF InCells(g, i) THEN Repeat(Once, t, n) ELSE Panic(t)
    ELSE t

\* CSI r (DECSTBM)
set_scroll_region(t, params) ==
  LET top == param(params, 0, 1)
      bottom == param(params, 1, t.grid.rows % 65536)
      scroll_top == Min(top - 1, t.grid.rows - 1)
  IN [t EXCEPT !.scroll_top = scroll_top,
               !.scroll_bottom = Min(bottom - 1, t.grid.rows - 1),
               !.grid.cursor_row = IF t.origin_mode THEN scroll_top ELSE 0,
               !.grid.cursor_col = 0]

\* a report that replaces the queue instead of extending it
device_status_replaces(t, params, is_private) ==
  LET r == Decimal(t.grid.cursor_row + 1)
      c == Decimal(t.grid.cursor_col + 1)
  IN IF ~is_private /\ param(params, 0, 0) = 5
       THEN [t EXCEPT !.write_back = <<27, 91, 48, 110>>]
     ELSE IF ~is_private /\ param(params, 0, 0) = 6
       THEN [t EXCEPT !.write_back = <<27, 91>> \o r \o <<59>> \o c \o <<82>>]
     ELSE IF is_private /\ param(params, 0, 0) = 6
       THEN [t EXCEPT !.write_back = <<27, 91, 63>> \o r \o <<59>> \o c
                                       \o <<82>>]
     ELSE t

\* a position report that counts rows and columns from zero
device_status_zero_based(t, params, is_private) ==
  LET r == Decimal(t.grid.cursor_row)
      c == Decimal(t.grid.cursor_col)
  IN IF ~is_private /\ param(params, 0, 0) = 5
       THEN [t EXCEPT !.write_back = @ \o <<27, 91, 48, 110>>]
     ELSE IF ~is_private /\ param(params, 0, 0) = 6
       THEN [t EXCEPT !.write_back = @ \o <<27, 91>> \o r \o <<59>> \o c
                                       \o <<82>>]
     ELSE IF is_private /\ param(params, 0, 0) = 6
       THEN [t EXCEPT !.write_back = @ \o <<27, 91, 63>> \o r \o <<59>> \o c
                                       \o <<82>>]
     ELSE t

\* CSI n (DSR) and CSI ? n
device_status(t, params, is_private) ==
  LET r == Decimal(t.grid.cursor_row + 1)
      c == Decimal(t.grid.cursor_col + 1)
  IN IF ~is_private /\ param(params, 0, 0) = 5
       THEN [t EXCEPT !.write_back = @ \o <<27, 91, 48, 110>>]
     ELSE IF ~is_private /\ param(params, 0, 0) = 6
       THEN [t EXCEPT !.write_back = @ \o <<27, 91>> \o r \o <<59>> \o c
                                       \o <<82>>]
     ELSE IF is_private /\ param(params, 0, 0) = 6
       THEN [t EXCEPT !.write_back = @ \o <<27, 91, 63>> \o r \o <<59>> \o c
                                       \o <<82>>]
     ELSE t

\* CSI g (TBC)
tab_clear(t, params) ==
  IF param(params, 0, 0) = 0
    THEN IF t.grid.cursor_col < Len(t.tab_stops)
           THEN [t EXCEPT !.tab_stops[t.grid.cursor_col + 1] = FALSE]
           ELSE t
  ELSE IF param(params, 0, 0) = 3
    THEN [t EXCEPT !.tab_stops = Fill(Len(t.tab_stops), FALSE)]
  ELSE t

\* Terminal::csi_dispatch
csi_dispatch(t, final_byte, params, intermediates, overflow_checks) ==
  LET is_private == Len(intermediates) > 0 /\ intermediates[1] = 63
      g == t.grid
      n == param(params, 0, 1)
      mode == param(params, 0, 0)
      UpOnce(h) == scroll_region_up(h, t.scroll_top, t.scroll_bottom)
      DownOnce(h) == scroll_region_down(h, t.scroll_top, t.scroll_bottom)
      CbtOnce(u) == cbt_once(u, overflow_checks)
  IN CASE final_byte = 65 ->
            [t EXCEPT !.grid.cursor_row =
               Max(SatSub(g.cursor_row, n),
                   IF t.origin_mode THEN t.scroll_top ELSE 0)]
       [] final_byte = 66 ->
            [t EXCEPT !.grid.cursor_row =
               Min(g.cursor_row + n,
                   IF t.origin_mode THEN t.scroll_bottom ELSE g.rows - 1)]
       [] final_byte = 67 ->
            [t EXCEPT !.grid.cursor_col = Min(g.cursor_col + n, g.cols - 1)]
       [] final_byte = 68 ->
            [t EXCEPT !.grid.cursor_col = SatSub(g.cursor_col, n)]
       [] final_byte = 69 ->
            [t EXCEPT !.grid.cursor_row = Min(g.cursor_row + n, g.rows - 1),
                      !.grid.cursor_col = 0]
       [] final_byte = 70 ->
            [t EXCEPT !.grid.cursor_row = SatSub(g.cursor_row, n),
                      !.grid.cursor_col = 0]
       [] final_byte = 71 \/ final_byte = 96 ->
            [t EXCEPT !.grid.cursor_col = Min(n - 1, g.cols - 1)]
       [] final_byte = 72 \/ final_byte = 102 ->
            [t EXCEPT !.grid.cursor_row =
               Min((IF t.origin_mode THEN t.scroll_top ELSE 0) + n - 1,
                   g.rows - 1),
               !.grid.cursor_col = Min(param(params, 1, 1) - 1, g.cols - 1)]
       [] final_byte = 100 ->
            [t EXCEPT !.grid.cursor_row = Min(n - 1, g.rows - 1)]
       [] final_byte = 73 -> Repeat(cht_once, t, n)
       [] final_byte = 90 -> Repeat(CbtOnce, t, n)
       [] final_byte = 74 ->
            CASE mode = 0 -> GridOp(t, erase_below_ok(g), erase_below(g))
              [] mode = 1 -> GridOp(t, erase_above_ok(g), erase_above(g))
              [] mode = 2 \/ mode = 3 -> [t EXCEPT !.grid = grid_clear(g)]
              [] OTHER -> t
       [] final_byte = 75 ->
            CASE mode = 0 ->
                   GridOp(t, erase_line_right_ok(g), erase_line_right(g))
              [] mode = 1 ->
                   GridOp(t, erase_line_left_ok(g), erase_line_left(g))
              [] mode = 2 -> GridOp(t, erase_line_ok(g), erase_line(g))
              [] OTHER -> t
       [] final_byte = 88 -> erase_chars(t, n)
       [] final_byte = 76 ->
            GridOp(t, insert_lines_ok(g, g.cursor_row, n, t.scroll_bottom),
                   insert_lines(g, g.cursor_row, n, t.scroll_bottom))
       [] final_byte = 77 ->
            GridOp(t, delete_lines_ok(g, g.cursor_row, n, t.scroll_bottom),
                   delete_lines(g, g.cursor_row, n, t.scroll_bottom))
       [] final_byte = 80 -> GridOp(t, shift_chars_ok(g), delete_chars(g, n))
       [] final_byte = 64 -> GridOp(t, shift_chars_ok(g), insert_chars(g, n))
       [] final_byte = 83 /\ ~is_private ->
            GridOp(t, scroll_region_up_ok(g, t.scroll_top, t.scroll_bottom),
                   Repeat(UpOnce, g, n))
       [] final_byte = 84 ->
            GridOp(t, scroll_region_down_ok(g, t.scroll_top, t.scroll_bottom),
                   Repeat(DownOnce, g, n))
       [] final_byte = 98 -> repeat_char(t, n)
       [] final_byte = 109 -> handle_sgr(t, params)
       [] final_byte = 114 /\ ~is_private -> set_scroll_region(t, params)
       [] final_byte = 104 /\ is_private -> set_dec_mode(t, params, TRUE)
       [] final_byte = 108 /\ is_private -> set_dec_mode(t, params, FALSE)
       [] final_byte = 104 /\ ~is_private -> set_ansi_mode(t, params, TRUE)
       [] final_byte = 108 /\ ~is_private -> set_ansi_mode(t, params, FALSE)
       [] final_byte = 115 /\ ~is_private -> save_cursor(t)
       [] final_byte = 117 -> restore_cursor(t)
       [] final_byte = 110 -> device_status(t, params, is_private)
       [] final_byte = 99 /\ ~is_private ->
            IF param(params, 0, 0) = 0
              THEN [t EXCEPT !.write_back =
                      @ \o <<27, 91, 63, 54, 50, 59, 50, 50, 99>>]
              ELSE t
       [] final_byte = 103 -> tab_clear(t, params)
       [] OTHER -> t

\* ESC # 8 (DECALN)
decaln(t) ==
  [t EXCEPT !.grid.cells =
     Fill(Len(t.grid.cells), MkCell(69, AttrEmpty, DEFAULT_FG, DEFAULT_BG))]

\* ESC H (HTS)
set_tab_stop(t) ==
  IF t.grid.cursor_col < Len(t.tab_stops)
    THEN [t EXCEPT !.tab_stops[t.grid.cursor_col + 1] = TRUE]
    ELSE t

\* a reset that builds the new terminal but keeps the write-back queue
full_reset_keeps_queue(t) ==
  [TerminalNew(t.grid.cols, t.grid.rows) EXCEPT !.write_back = t.write_back]

\* ESC c (RIS): *self = Terminal::new(cols, rows)
full_reset(t) == TerminalNew(t.grid.cols, t.grid.rows)

\* Terminal::esc_dispatch
esc_dispatch(t, final_byte, intermediates) ==
  IF Len(intermediates) > 0 /\ intermediates[1] = 35
    THEN IF final_byte = 56 THEN decaln(t) ELSE t
  ELSE CASE final_byte = 55 -> save_cursor(t)
         [] final_byte = 56 -> restore_cursor(t)
         [] final_byte = 77 -> reverse_index(t)
         [] final_byte = 68 -> index(t)
         [] final_byte = 69 -> index([t EXCEPT !.grid.cursor_col = 0])
         [] final_byte = 72 -> set_tab_stop(t)
         [] final_byte = 61 -> [t EXCEPT !.keypad_app = TRUE]
         [] final_byte = 62 -> [t EXCEPT !.keypad_app = FALSE]
         [] final_byte = 99 -> full_reset(t)
         [] OTHER -> t

\* Terminal::osc_dispatch
osc_dispatch(t, data) ==
  LET s == from_utf8_lossy(data)
      t1 == IF StartsWith(s, <<48, 59>>) \/ StartsWith(s, <<50, 59>>)
              THEN [t EXCEPT !.title = Drop(s, 2)] ELSE t
      t2 == IF StartsWith(s, <<55, 59>>)
              THEN [t1 EXCEPT !.osc7_cwd = Some(Drop(s, 2)),
                              !.shell = handle_osc7(@, Drop(s, 2))]
              ELSE t1
      t3 == IF StartsWith(s, <<49, 51, 51, 59>>)
              THEN [t2 EXCEPT !.osc133_data = Some(Drop(s, 4)),
                              !.shell = handle_osc133(@, Drop(s, 4),
                                                      t.grid.cursor_row)]
              ELSE t2
  IN IF StartsWith(s, <<53, 50, 59>>) THEN [t3 EXCEPT !.osc52_data = Some(s)]
     ELSE t3

\* Terminal::handle_action
handle_action(t, action, overflow_checks) ==
  CASE action.type = "Print" -> print(t, action.ch)
    [] action.type = "Execute" -> execute(t, action.byte)
    [] action.type = "CsiDispatch" ->
         csi_dispatch(t, action.byte, action.params, action.intermediates,
                      overflow_checks)
    [] action.type = "EscDispatch" ->
         esc_dispatch(t, action.byte, action.intermediates)
    [] action.type = "OscDispatch" -> osc_dispatch(t, action.data)
    [] OTHER -> t

\* terminal and parser travel together through feed_bytes
Pair(t, p) == [t |-> t, p |-> p]

\* the body of the loop of Terminal::feed_bytes for one byte
feed_byte(tp, byte, overflow_checks) ==
  LET r == advance(tp.p, byte)
      dec == utf8_feed(tp.t.utf8, byte)
  IN IF r.a.type = "Print" /\ r.a.ch = REPLACEMENT_CHARACTER /\ byte >= 128
       THEN LET t1 == [tp.t EXCEPT !.utf8 = dec.d]
            IN Pair(IF IsSome(dec.out) THEN print(t1, dec.out[1]) ELSE t1,
                    r.p)
       ELSE Pair(handle_action(tp.t, r.a, overflow_checks), r.p)

\* the loop of Terminal::feed_bytes over the bytes lo..hi of data in order;
\* a panic ends it (the first half, then the second half from the state the
\* first half leaves: the depth of the evaluation stays logarithmic in the
\* length of data)
RECURSIVE feed_loop(_, _, _, _, _)
feed_loop(tp, data, lo, hi, overflow_checks) ==
  IF lo > hi \/ tp.t.panicked THEN tp
  ELSE IF lo = hi THEN feed_byte(tp, data[lo], overflow_checks)
  ELSE LET mid == (lo + hi) \div 2
       IN feed_loop(feed_loop(tp, data, lo, mid, overflow_checks),
                    data, mid + 1, hi, overflow_checks)

\* feed_bytes with a decoder that does not outlive the call
feed_bytes_fresh_decoder(t, p, data, overflow_checks) ==
  feed_loop(Pair([t EXCEPT !.utf8 = Utf8DecoderNew], p), data, 1,
            Len(data), overflow_checks)

\* Terminal::feed_bytes
feed_bytes(t, p, data, overflow_checks) ==
  feed_loop(Pair(t, p), data, 1, Len(data), overflow_checks)

\* Terminal::set_default_colors
set_default_colors(t, fg, bg) == [t EXCEPT !.fg = fg, !.bg = bg]

\* Terminal::resize
resize(t, cols, rows) ==
  [t EXCEPT !.grid = grid_resize(t.grid, cols, rows),
            !.scroll_top = 0, !.scroll_bottom = rows - 1,
            !.tab_stops = DefaultTabStops(cols)]

\* ------------------------------------------------------------------------
\* Input: the byte sequences handed to feed_bytes
\* ------------------------------------------------------------------------

ESC == 27

\* the decimal parameters of a control sequence, separated by ';'
RECURSIVE ParamBytes(_)
ParamBytes(ps) ==
  IF Len(ps) = 0 THEN << >>
  ELSE IF Len(ps) = 1 THEN Decimal(ps[1])
  ELSE Decimal(ps[1]) \o <<59>> \o ParamBytes(Tail(ps))

\* ESC [ params final
Csi(ps, final) == <<ESC, 91>> \o ParamBytes(ps) \o <<final>>

\* ESC [ ? params final
CsiPrivate(ps, final) == <<ESC, 91, 63>> \o ParamBytes(ps) \o <<final>>

\* ESC ] payload BEL
Osc(payload) == <<ESC, 93>> \o payload \o <<7>>

\* printable text and UTF-8: A, U+4E2D (wide), a lone two-byte lead, a lone
\* continuation byte, and a full row of B (the cursor ends in the
\* pending-wrap column)
TextChunks ==
  { <<65>>, <<228, 184, 173>>, <<195>>, <<169>>, Fill(Cols, 66) }

\* C0 controls: BS, HT, LF, CR
ControlChunks == { <<8>>, <<9>>, <<10>>, <<13>> }

\* cursor movement, scroll region and modes
CursorChunks ==
  { Csi(<< >>, 65), Csi(<<99999>>, 66), Csi(<<9>>, 67), Csi(<< >>, 68),
    Csi(<<2, 2>>, 72), Csi(<< >>, 90), Csi(<<2>>, 73),
    Csi(<<2, 1>>, 114), Csi(<<2>>, 114),
    CsiPrivate(<<6>>, 104), CsiPrivate(<<7>>, 108),
    CsiPrivate(<<1049>>, 104), CsiPrivate(<<1049>>, 108),
    CsiPrivate(<<47>>, 104), CsiPrivate(<<47>>, 108) }

\* erase, insert and delete, scroll, repeat, SGR, reports, tab clear
EditChunks ==
  { Csi(<< >>, 74), Csi(<<1>>, 74), Csi(<<2>>, 74), Csi(<< >>, 75),
    Csi(<<1>>, 75), Csi(<<2>>, 88), Csi(<< >>, 76), Csi(<< >>, 77),
    Csi(<< >>, 80), Csi(<< >>, 64), Csi(<<3>>, 83), Csi(<< >>, 84),
    Csi(<<2>>, 98), Csi(<<1, 31>>, 109), Csi(<<6>>, 110),
    Csi(<<3>>, 103) }

\* ESC sequences: DECSC, DECRC, RI, IND, NEL, HTS, DECKPAM, DECALN, RIS
EscChunks ==
  { <<ESC, 55>>, <<ESC, 56>>, <<ESC, 77>>, <<ESC, 68>>, <<ESC, 69>>,
    <<ESC, 72>>, <<ESC, 61>>, <<ESC, 35, 56>>, <<ESC, 99>> }

\* OSC 0 ; t, OSC 7 ; file://h/d, OSC 133 ; A, OSC 133 ; D ; 1, OSC 52 ; c
OscChunks ==
  { Osc(<<48, 59, 116>>),
    Osc(<<55, 59>> \o FILE_SCHEME \o <<104, 47, 100>>),
    Osc(<<49, 51, 51, 59, 65>>), Osc(<<49, 51, 51, 59, 68, 59, 49>>),
    Osc(<<53, 50, 59, 99>>) }

\* the UTF-8 encoding of a codepoint (str::as_bytes of a one-character str)
Utf8Encode(cp) ==
  IF cp < 128 THEN <<cp>>
  ELSE IF cp < 2048 THEN <<192 + (cp \div 64), 128 + (cp % 64)>>
  ELSE IF cp < 65536
    THEN <<224 + (cp \div 4096), 128 + ((cp \div 64) % 64), 128 + (cp % 64)>>
  ELSE <<240 + (cp \div 262144), 128 + ((cp \div 4096) % 64),
         128 + ((cp \div 64) % 64), 128 + (cp % 64)>>

\* codepoints fed as UTF-8: A, U+00E9, U+4E2D (wide), U+1F600 (wide),
\* U+0301 (combining, width 0), LF (control)
Codepoints == { 65, 233, 20013, 128512, 769, 10 }

\* byte sequences that are fed in two halves, split at every position:
\* CUP 2;2, U+4E2D, OSC 0 ; t, DECALN, U+1F600 A, DECSET 1049, a lead byte
\* followed by A and a continuation byte, SGR 1;31 followed by A
SplitSequences ==
  { Csi(<<2, 2>>, 72), <<228, 184, 173>>, Osc(<<48, 59, 116>>),
    <<ESC, 35, 56>>, <<240, 159, 152, 128, 65>>, CsiPrivate(<<1049>>, 104),
    <<195, 65, 169>>, Csi(<<1, 31>>, 109) \o <<65>> }

\* SGR parameter lists
SgrLists ==
  { << >>, <<1>>, <<3, 4>>, <<31>>, <<38, 5, 196>>, <<48, 2, 1, 2, 3>>,
    <<7, 42>>, <<22>>, <<39, 49>>, <<38, 5>>, <<9, 94, 105>>, <<2, 8>>,
    <<38, 2, 300, 0, 0>>, <<1, 0, 4>> }

\* Theme::default_dark, Theme::dracula, Theme::solarized_dark: fg and bg
ThemeDefaultDark == [fg |-> <<204, 204, 204>>, bg |-> <<0, 0, 0>>]

ThemeDracula == [fg |-> <<248, 248, 242>>, bg |-> <<40, 42, 54>>]

ThemeSolarizedDark == [fg |-> <<131, 148, 150>>, bg |-> <<0, 43, 54>>]

\* the themes whose colours are handed to set_default_colors
Themes == { ThemeDefaultDark, ThemeDracula, ThemeSolarizedDark }

\* CSI 0 m followed by CSI P m
ResetThen(P) == Csi(<<0>>, 109) \o Csi(P, 109)

\* queries: DSR 5, DSR 6, DECXCPR, DA, DSR 5 then DA, DA then DSR 5 in one
\* slice, and the unanswered DSR 7 and DA 1
QueryChunks ==
  { Csi(<<5>>, 110), Csi(<<6>>, 110), CsiPrivate(<<6>>, 110),
    Csi(<< >>, 99), Csi(<<5>>, 110) \o Csi(<< >>, 99),
    Csi(<< >>, 99) \o Csi(<<5>>, 110), Csi(<<7>>, 110), Csi(<<1>>, 99) }

\* bytes fed one per call: ESC, [, ], 1, ;, space, m, CAN, BEL
ParserBytes == { 27, 91, 93, 49, 59, 32, 109, 24, 7 }

\* what follows an ESC: CSI m, CSI 1;2 H, CSI SP q, CSI ? 6 h, OSC 0;t BEL,
\* # 8, 7
ResyncTails ==
  { <<91, 109>>, <<91, 49, 59, 50, 72>>, <<91, 32, 113>>,
    <<91, 63, 54, 104>>, <<93, 48, 59, 116, 7>>, <<35, 56>>, <<55>> }

\* the digits of CSI parameters, as bytes: 0, 7, 65534, 65535, 65536, 65537,
\* 99999, 131072, 655350, 655360, 0065536, 999999999
DigitStrings ==
  { <<48>>, <<55>>, <<54, 53, 53, 51, 52>>, <<54, 53, 53, 51, 53>>,
    <<54, 53, 53, 51, 54>>, <<54, 53, 53, 51, 55>>, <<57, 57, 57, 57, 57>>,
    <<49, 51, 49, 48, 55, 50>>, <<54, 53, 53, 51, 53, 48>>,
    <<54, 53, 53, 51, 54, 48>>, <<48, 48, 54, 53, 53, 51, 54>>,
    <<57, 57, 57, 57, 57, 57, 57, 57, 57>> }

\* final bytes of sequences whose parameter enters cursor or cell
\* arithmetic: CUU, CUD, CUF, CUB, CHA, VPA, ECH, ICH, DCH, IL
ParamFinals == { 65, 66, 67, 68, 71, 100, 88, 64, 80, 76 }

\* ESC [ digits final
ParamSequence(ds, final) == <<ESC, 91>> \o ds \o <<final>>

\* DECSET / DECRST of an alt-screen mode
AltModes == { 47, 1047, 1049 }

EnterAlt(m) == CsiPrivate(<<m>>, 104)

LeaveAlt(m) == CsiPrivate(<<m>>, 108)

\* the alt-screen mode that the sequence d sets, 0 when it is none
AltModeOf(d) ==
  IF \E m \in AltModes : d = EnterAlt(m)
    THEN CHOOSE m \in AltModes : d = EnterAlt(m)
    ELSE 0

\* entering and leaving the alt screen
AltSwitchChunks == { EnterAlt(m) : m \in AltModes } \cup
                   { LeaveAlt(m) : m \in AltModes }

\* output while some screen is visible: A, LF, CUP 2;2, ED 2, DECALN
AltOutputChunks ==
  { <<65>>, <<10>>, Csi(<<2, 2>>, 72), Csi(<<2>>, 74), <<ESC, 35, 56>> }

\* the saves: ESC 7, CSI s, DECSET 1048, DECSET 1049
SaveChunks ==
  { <<ESC, 55>>, Csi(<< >>, 115), CsiPrivate(<<1048>>, 104), EnterAlt(1049) }

\* the restores: ESC 8, CSI u, DECRST 1048, DECRST 1049
RestoreChunks ==
  { <<ESC, 56>>, Csi(<< >>, 117), CsiPrivate(<<1048>>, 108), LeaveAlt(1049) }

\* cursor movement and SGR changes around a save: SGR 1;31 then CUP 2;2,
\* SGR 0 then A, a full row of B, CUP 2;2, CR
SaveMoveChunks ==
  { Csi(<<1, 31>>, 109) \o Csi(<<2, 2>>, 72), Csi(<<0>>, 109) \o <<65>>,
    Fill(Cols, 66), Csi(<<2, 2>>, 72), <<13>> }

\* cursor movement with the parameter 9: CUU, CUD, CUF, CUB, CNL, CPL, CHA,
\* VPA, CHT, CBT, and CUP / HVP 9;9
MoveChunks ==
  { Csi(<<9>>, final) : final \in { 65, 66, 67, 68, 69, 70, 71, 100, 73, 90 } }
    \cup { Csi(<<9, 9>>, 72), Csi(<<9, 9>>, 102) }

\* ESC sequences that move the cursor: DECSC, DECRC, RI, IND, NEL
MoveEscChunks ==
  { <<ESC, 55>>, <<ESC, 56>>, <<ESC, 77>>, <<ESC, 68>>, <<ESC, 69>> }

\* printed text: a full row of B, A, U+4E2D
MoveTextChunks == { Fill(Cols, 66), <<65>>, <<228, 184, 173>> }

\* DECSET and DECRST of mode 47
MoveAltChunks == { EnterAlt(47), LeaveAlt(47) }

\* scroll region and modes: DECSTBM 1;1, DECSTBM without parameters, DECOM
\* set and reset, DECAWM reset and set
RegionChunks ==
  { Csi(<<1, 1>>, 114), Csi(<< >>, 114), CsiPrivate(<<6>>, 104),
    CsiPrivate(<<6>>, 108), CsiPrivate(<<7>>, 108), CsiPrivate(<<7>>, 104) }

\* row and column parameters of CUP / HVP
CupParams == { <<1, 1>>, <<2, 9>>, <<9, 9>>, <<2, 1>> }

\* CUP and HVP
CupChunks ==
  { Csi(rc, 72) : rc \in CupParams } \cup { Csi(rc, 102) : rc \in CupParams }

\* output: U+4E2D, A, LF, CUF 9, SGR 41
RegionOutputChunks ==
  { <<228, 184, 173>>, <<65>>, <<10>>, Csi(<<9>>, 67), Csi(<<41>>, 109) }

\* OSC 133 ; marker BEL
Marker(marker) == Osc(<<49, 51, 51, 59>> \o marker)

\* exit codes reported by the shell
ExitCodes == { 0, 0 - 1 }

\* the decimal text of an exit code
ExitText(e) == IF e < 0 THEN <<45>> \o Decimal(0 - e) ELSE Decimal(e)

\* OSC 133 ; D ; e BEL
MarkerD(e) == Marker(<<68, 59>> \o ExitText(e))

\* prompt start, command start, output start, command finished
MarkerChunks ==
  { Marker(<<65>>), Marker(<<66>>), Marker(<<67>>) } \cup
  { MarkerD(e) : e \in ExitCodes }

\* between the markers: LF, CUU, RIS
ShellMoveChunks == { <<10>>, Csi(<< >>, 65), <<ESC, 99>> }

\* the bytes that introduce a control string after ESC: P (DCS), X (SOS),
\* ^ (PM), _ (APC)
StringIntroducers == { 80, 88, 94, 95 }

\* the payloads of the control strings: A, and q followed by LF
StringPayloads == { <<65>>, <<113, 10>> }

\* ESC introducer, payload, ST (ESC \)
ControlString(intro, payload) == <<ESC, intro>> \o payload \o <<ESC, 92>>

StringChunks ==
  { ControlString(i, pl) : i \in StringIntroducers, pl \in StringPayloads }

\* IL and DL with the default count and with count 2
LineChunks == { Csi(<< >>, 76), Csi(<<2>>, 76), Csi(<< >>, 77), Csi(<<2>>, 77) }

\* DECSTBM 1;1, DECSTBM 2;2, DECSTBM without parameters, CUP 1;1, CUP 2;1
LineRegionChunks ==
  { Csi(<<1, 1>>, 114), Csi(<<2, 2>>, 114), Csi(<< >>, 114),
    Csi(<<1, 1>>, 72), Csi(<<2, 1>>, 72) }

\* DECAWM reset and set
WrapModeChunks == { CsiPrivate(<<7>>, 108), CsiPrivate(<<7>>, 104) }

\* printed text: A, a full row of B, U+4E2D (wide), U+0301 (zero width)
PrintChunks == { <<65>>, Fill(Cols, 66), <<228, 184, 173>>, <<204, 129>> }

\* LF, CR, CUF 9
PrintMoveChunks == { <<10>>, <<13>>, Csi(<<9>>, 67) }

\* the counts of REP
RepCounts == { 1, 2 }

\* REP n: CSI b for the default count, CSI n b otherwise
Rep(n) == IF n = 1 THEN Csi(<< >>, 98) ELSE Csi(<<n>>, 98)

RepChunks == { Rep(n) : n \in RepCounts }

\* the characters printed before REP: A and U+4E2D
RepeatedChars == { <<65>>, <<228, 184, 173>> }

\* the encoding of a character n times
RECURSIVE Times(_, _)
Times(bytes, n) == IF n = 0 THEN << >> ELSE bytes \o Times(bytes, n - 1)

\* columns of a terminal wide enough for a default tab stop at column 8 that
\* is not the last column
WideCols == 3 * Cols + 1

\* HTS, TBC 0, TBC 3
TabStopChunks == { <<ESC, 72>>, Csi(<<0>>, 103), Csi(<<3>>, 103) }

\* HT, CUF 1, CR, a full row of B
TabMoveChunks == { <<9>>, Csi(<< >>, 67), <<13>>, Fill(WideCols, 66) }

\* the indexes of the 256-colour palette
PaletteIndexes == 0..255

\* SGR 38;5;idx (foreground) and SGR 48;5;idx (background)
SgrPalette(layer, idx) == Csi(<<layer, 5, idx>>, 109)

\* OSC 0 and OSC 2 with the title t, and OSC 0 with A repeated one time
\* more often than the sanitisation cap
TitleChunks ==
  { Osc(<<48, 59, 116>>), Osc(<<50, 59, 116>>),
    Osc(<<48, 59>> \o Fill(SANITIZE_OSC_CAP + 1, 65)) }

\* a line of one letter (A, B or C) followed by CR LF
ScrollLine(x) == <<x, 13, 10>>

ScrollLineChunks == { ScrollLine(x) : x \in {65, 66, 67} }

\* SU with the count n
ScrollUp(n) == Csi(<<n>>, 83)

\* counts of SU
ScrollUpCounts == {1, 3}

\* LF, IND, SU
ScrollOffChunks == { <<10>>, <<ESC, 68>> } \cup { ScrollUp(n) : n \in ScrollUpCounts }

\* DECSTBM 1;1, DECSTBM 2;2, DECSTBM without parameters
ScrollRegionChunks == { Csi(<<1, 1>>, 114), Csi(<<2, 2>>, 114), Csi(<< >>, 114) }

\* output of a host between resizes: A, SU, HT, CBT, HTS
HostChunks == { <<65>>, Csi(<< >>, 83), <<9>>, Csi(<< >>, 90), <<ESC, 72>> }

\* the start of an OSC string, ESC ] and a payload without its terminator:
\* 0;t, 2;t, 7;file://h/d, 133;A
OscOpenChunks ==
  { <<ESC, 93>> \o pl :
      pl \in { <<48, 59, 116>>, <<50, 59, 116>>,
               <<55, 59>> \o FILE_SCHEME \o <<104, 47, 100>>,
               <<49, 51, 51, 59, 65>> } }

\* the terminators of an OSC string: BEL and the 8-bit ST
OscEndChunks == { <<7>>, <<156>> }

\* what ends an OSC string without dispatching it: ESC \ (the 7-bit ST), a
\* lone ESC, CAN, SUB
OscAbortChunks == { <<ESC, 92>>, <<ESC>>, <<24>>, <<26>> }

\* the geometries Terminal::resize is called with
ResizeCols == { Cols - 1, Cols + 1 }

ResizeRows == { Rows - 1 , Rows + 1 } \ { 0 }

\* ------------------------------------------------------------------------
\* The state machine
\* ------------------------------------------------------------------------

VARIABLES term, parser, data, calls, whole, rest, sent, entered, last_save,
          cycle

vars ==
  <<term, parser, data, calls, whole, rest, sent, entered, last_save, cycle>>

\* term_session_new: Terminal::new, VtParser::new and the configured
\* scrollback capacity.  data is the slice last handed to feed_bytes, calls
\* the number of calls made; whole is the terminal and parser that received
\* every split sequence in one call, rest the half of a split sequence still
\* to be fed, sent the codepoints whose encoding has been fed; entered holds
\* the cells of the main grid and the mode at the last entry into the alt
\* screen, last_save the cursor and SGR state at the last save; cycle holds
\* the cursor rows of the OSC 133 markers A, B, C received in that order
\* since the last A, and whether RIS was received among them
Init ==
  /\ term = [set_default_colors(TerminalNew(Cols, Rows),
                                  ThemeDefaultDark.fg, ThemeDefaultDark.bg)
               EXCEPT !.grid = set_scrollback_max(@, MaxScrollback)]
  /\ parser = VtParserNew
  /\ data = << >>
  /\ calls = 0
  /\ whole = Pair(term, parser)
  /\ rest = None
  /\ sent = << >>
  /\ entered = None
  /\ last_save = None
  /\ cycle = [rows |-> << >>, reset |-> FALSE]

\* terminal.feed_bytes(&mut parser, d), as one of at most max calls
CallWithin(d, max) ==
  /\ ~term.panicked
  /\ calls < max
  /\ \E overflow_checks \in BOOLEAN :
       LET r == feed_bytes(term, parser, d, overflow_checks)
       IN /\ term' = r.t
          /\ parser' = r.p
  /\ data' = d
  /\ calls' = calls + 1
  /\ entered' =
       IF ~IsSome(term.alt_grid) /\ IsSome(term'.alt_grid)
         THEN Some([cells |-> term.grid.cells, mode |-> AltModeOf(d)])
         ELSE entered
  /\ last_save' =
       IF d \in SaveChunks
         THEN Some([row |-> term.grid.cursor_row, col |-> term.grid.cursor_col,
                    attr |-> term.attr, fg |-> term.fg, bg |-> term.bg])
       ELSE IF d = <<ESC, 99>> THEN None
       ELSE last_save
  /\ cycle' =
       IF d = Marker(<<65>>)
         THEN [rows |-> <<term.grid.cursor_row>>, reset |-> FALSE]
       ELSE IF d = Marker(<<66>>) /\ Len(cycle.rows) = 1
         THEN [cycle EXCEPT !.rows = Append(@, term.grid.cursor_row)]
       ELSE IF d = Marker(<<67>>) /\ Len(cycle.rows) = 2
         THEN [cycle EXCEPT !.rows = Append(@, term.grid.cursor_row)]
       ELSE IF d \in MarkerChunks
         THEN [rows |-> << >>, reset |-> FALSE]
       ELSE IF d = <<ESC, 99>> /\ Len(cycle.rows) > 0
         THEN [cycle EXCEPT !.reset = TRUE]
       ELSE cycle

\* terminal.feed_bytes(&mut parser, d)
Call(d) == CallWithin(d, MaxCalls)

FeedBytes(d) == Call(d) /\ UNCHANGED <<whole, rest, sent>>

FeedText == \E d \in TextChunks : FeedBytes(d)

FeedControl == \E d \in ControlChunks : FeedBytes(d)

FeedCursor == \E d \in CursorChunks : FeedBytes(d)

FeedEdit == \E d \in EditChunks : FeedBytes(d)

FeedEsc == \E d \in EscChunks : FeedBytes(d)

FeedOsc == \E d \in OscChunks : FeedBytes(d)

\* terminal.resize(cols, rows)
Resize ==
  /\ ~term.panicked
  /\ calls < MaxCalls
  /\ \E c \in ResizeCols, r \in ResizeRows : term' = resize(term, c, r)
  /\ data' = << >>
  /\ calls' = calls + 1
  /\ UNCHANGED <<parser, whole, rest, sent, entered, last_save, cycle>>

NextFeed ==
  FeedText \/ FeedControl \/ FeedCursor \/ FeedEdit \/ FeedEsc \/ FeedOsc

Next == NextFeed \/ Resize

\* feed_bytes only, as the fuzz target drives the terminal
SpecFeed == Init /\ [][NextFeed]_vars

\* feed_bytes and resize, as a host drives the terminal
Spec == Init /\ [][Next]_vars

FeedQuery == \E d \in QueryChunks : FeedBytes(d)

NextQuery == FeedQuery \/ FeedText \/ FeedCursor \/ FeedEsc

\* queries between text, cursor movement and ESC sequences
SpecQuery == Init /\ [][NextQuery]_vars

FeedAltSwitch ==
  /\ \E d \in AltSwitchChunks : CallWithin(d, MaxCallsFew)
  /\ UNCHANGED <<whole, rest, sent>>

FeedAltOutput ==
  /\ \E d \in AltOutputChunks : CallWithin(d, MaxCallsFew)
  /\ UNCHANGED <<whole, rest, sent>>

NextAlt == FeedAltSwitch \/ FeedAltOutput

\* switches between the screens and output on either
SpecAlt == Init /\ [][NextAlt]_vars

FeedSaveRestore ==
  /\ \E d \in SaveChunks \cup RestoreChunks : CallWithin(d, MaxCallsFew)
  /\ UNCHANGED <<whole, rest, sent>>

FeedSaveMove ==
  /\ \E d \in SaveMoveChunks : CallWithin(d, MaxCallsFew)
  /\ UNCHANGED <<whole, rest, sent>>

NextSave == FeedSaveRestore \/ FeedSaveMove

\* saves and restores between cursor movement and SGR changes
SpecSave == Init /\ [][NextSave]_vars

FeedByte ==
  /\ \E b \in ParserBytes : CallWithin(<<b>>, MaxBytes)
  /\ UNCHANGED <<whole, rest, sent>>

\* every byte arrives in a call of its own, in any order
SpecBytes == Init /\ [][FeedByte]_vars

FeedParam ==
  \E ds \in DigitStrings, final \in ParamFinals :
    FeedBytes(ParamSequence(ds, final))

\* CSI sequences with one long parameter
SpecParam == Init /\ [][FeedParam]_vars

FeedMove == \E d \in MoveChunks : FeedBytes(d)

FeedMoveEsc == \E d \in MoveEscChunks : FeedBytes(d)

FeedMoveSave == \E d \in SaveChunks \cup RestoreChunks : FeedBytes(d)

FeedMoveText == \E d \in MoveTextChunks : FeedBytes(d)

FeedMoveAlt == \E d \in MoveAltChunks : FeedBytes(d)

NextMove ==
  \/ FeedMove \/ FeedControl \/ FeedMoveEsc \/ FeedMoveSave
  \/ FeedMoveText \/ FeedMoveAlt

\* cursor movement of every kind between printed text
SpecMove == Init /\ [][NextMove]_vars

FeedRegion == \E d \in RegionChunks : FeedBytes(d)

FeedCup == \E d \in CupChunks : FeedBytes(d)

FeedRegionOutput == \E d \in RegionOutputChunks : FeedBytes(d)

NextRegion == FeedRegion \/ FeedCup \/ FeedRegionOutput

\* scroll regions, origin mode, absolute positioning and output
SpecRegion == Init /\ [][NextRegion]_vars

FeedMarker == \E d \in MarkerChunks : CallWithin(d, MaxMarkers)
                                      /\ UNCHANGED <<whole, rest, sent>>

FeedShellMove == \E d \in ShellMoveChunks : CallWithin(d, MaxMarkers)
                                            /\ UNCHANGED <<whole, rest, sent>>

NextShell == FeedMarker \/ FeedShellMove

\* OSC 133 markers with cursor movement and resets between them
SpecShell == Init /\ [][NextShell]_vars

FeedString == \E d \in StringChunks : FeedBytes(d)

NextString == FeedString \/ FeedText \/ FeedControl

\* control strings between text and C0 controls
SpecString == Init /\ [][NextString]_vars

FeedLines == \E d \in LineChunks : FeedBytes(d)

FeedLineRegion == \E d \in LineRegionChunks : FeedBytes(d)

NextLines == FeedLines \/ FeedLineRegion \/ FeedText \/ FeedControl

\* insert and delete lines with scroll regions and text
SpecLines == Init /\ [][NextLines]_vars

FeedWrapMode ==
  /\ \E d \in WrapModeChunks : CallWithin(d, MaxCallsFew)
  /\ UNCHANGED <<whole, rest, sent>>

FeedPrint ==
  /\ \E d \in PrintChunks : CallWithin(d, MaxCallsFew)
  /\ UNCHANGED <<whole, rest, sent>>

FeedPrintMove ==
  /\ \E d \in PrintMoveChunks : CallWithin(d, MaxCallsFew)
  /\ UNCHANGED <<whole, rest, sent>>

NextPrint == FeedWrapMode \/ FeedPrint \/ FeedPrintMove

\* text printed with auto-wrap on and off
SpecPrint == Init /\ [][NextPrint]_vars

FeedRep ==
  /\ \E d \in RepChunks : CallWithin(d, MaxCallsFew)
  /\ UNCHANGED <<whole, rest, sent>>

NextRep == FeedRep \/ FeedPrint \/ FeedWrapMode \/ FeedPrintMove

\* REP after printed text and cursor movement
SpecRep == Init /\ [][NextRep]_vars

\* term_session_new for a terminal of WideCols columns
InitWide ==
  /\ term = [set_default_colors(TerminalNew(WideCols, Rows),
                                  ThemeDefaultDark.fg, ThemeDefaultDark.bg)
               EXCEPT !.grid = set_scrollback_max(@, MaxScrollback)]
  /\ parser = VtParserNew
  /\ data = << >>
  /\ calls = 0
  /\ whole = Pair(term, parser)
  /\ rest = None
  /\ sent = << >>
  /\ entered = None
  /\ last_save = None
  /\ cycle = [rows |-> << >>, reset |-> FALSE]

FeedTabStop ==
  /\ \E d \in TabStopChunks : CallWithin(d, MaxTabCalls)
  /\ UNCHANGED <<whole, rest, sent>>

FeedTabMove ==
  /\ \E d \in TabMoveChunks : CallWithin(d, MaxTabCalls)
  /\ UNCHANGED <<whole, rest, sent>>

NextTabs == FeedTabStop \/ FeedTabMove

\* tab stops set, cleared and used on a wide terminal
SpecTabs == InitWide /\ [][NextTabs]_vars

FeedPalette ==
  /\ \E layer \in {38, 48}, idx \in PaletteIndexes :
       CallWithin(SgrPalette(layer, idx), MaxPaletteCalls)
  /\ UNCHANGED <<whole, rest, sent>>

\* a colour of the 256-colour palette is selected
SpecPalette == Init /\ [][FeedPalette]_vars

FeedTitle == \E d \in TitleChunks : FeedBytes(d)

NextTitle == FeedTitle \/ FeedText \/ FeedControl

\* window titles of every length between text and C0 controls
SpecTitle == Init /\ [][NextTitle]_vars

\* a terminal whose scrollback holds one line more than that of Init
InitScroll ==
  /\ term = [set_default_colors(TerminalNew(Cols, Rows),
                                  ThemeDefaultDark.fg, ThemeDefaultDark.bg)
               EXCEPT !.grid = set_scrollback_max(@, MaxScrollback + 1)]
  /\ parser = VtParserNew
  /\ data = << >>
  /\ calls = 0
  /\ whole = << >>
  /\ rest = << >>
  /\ sent = << >>
  /\ entered = << >>
  /\ last_save = << >>
  /\ cycle = [rows |-> << >>, reset |-> FALSE]

FeedScroll ==
  /\ \E d \in ScrollLineChunks \cup ScrollOffChunks \cup ScrollRegionChunks :
       CallWithin(d, MaxCallsFew)
  /\ UNCHANGED <<whole, rest, sent>>

\* lines of text scrolling off the top of the grid and of scroll regions
SpecScroll == InitScroll /\ [][FeedScroll]_vars

FeedHost ==
  /\ \E d \in HostChunks : CallWithin(d, MaxCallsFew)
  /\ UNCHANGED <<whole, rest, sent>>

NextHost == Resize \/ FeedAltSwitch \/ FeedHost

\* resizes between switches of the screen and output
SpecHost == Init /\ [][NextHost]_vars

FeedOscPiece ==
  /\ \E d \in OscOpenChunks \cup OscEndChunks \cup OscAbortChunks :
       CallWithin(d, MaxCallsFew)
  /\ UNCHANGED <<whole, rest, sent>>

\* OSC strings fed in pieces: the start, then a terminator or an abort
SpecOsc == Init /\ [][FeedOscPiece]_vars

\* the first half of a sequence is fed; the reference receives it whole
SplitFirst ==
  /\ rest = None
  /\ \E s \in SplitSequences :
       \E k \in 0..Len(s) :
         /\ Call(Slice(s, 1, k))
         /\ rest' = Some(Slice(s, k + 1, Len(s)))
         /\ whole' = feed_bytes(whole.t, whole.p, s, TRUE)
  /\ UNCHANGED sent

\* the second half is fed in a feed_bytes call of its own
SplitSecond ==
  /\ rest # None
  /\ Call(rest[1])
  /\ rest' = None
  /\ UNCHANGED <<whole, sent>>

NextSplit == SplitFirst \/ SplitSecond

\* every sequence arrives in two feed_bytes calls
SpecSplit == Init /\ [][NextSplit]_vars

\* the UTF-8 encoding of one codepoint is fed
FeedChar ==
  /\ \E cp \in Codepoints :
       /\ Call(Utf8Encode(cp))
       /\ sent' = Append(sent, cp)
  /\ UNCHANGED <<whole, rest>>

\* text only: encoded codepoints
SpecUtf8 == Init /\ [][FeedChar]_vars

FeedSgr == \E P \in SgrLists : FeedBytes(Csi(P, 109))

FeedSgrReset == \E P \in SgrLists : FeedBytes(ResetThen(P))

FeedSave == FeedBytes(<<ESC, 55>>)

\* the embedder applies the colours of its theme
SetDefaultColors ==
  /\ ~term.panicked
  /\ calls < MaxCalls
  /\ \E theme \in Themes :
       term' = set_default_colors(term, theme.fg, theme.bg)
  /\ data' = << >>
  /\ calls' = calls + 1
  /\ UNCHANGED <<parser, whole, rest, sent, entered, last_save, cycle>>

NextSgr == FeedSgr \/ FeedSgrReset \/ FeedSave \/ SetDefaultColors

\* SGR sequences, DECSC and theme colours only
SpecSgr == Init /\ [][NextSgr]_vars

\* ------------------------------------------------------------------------
\* Properties
\* ------------------------------------------------------------------------

\* C1: after every feed_bytes call the cursor row is in [0, rows) and the
\* cursor column in [0, cols], cols being the pending-wrap column
CursorInBounds ==
  /\ term.grid.cursor_row >= 0
  /\ term.grid.cursor_row < term.grid.rows
  /\ term.grid.cursor_col >= 0
  /\ term.grid.cursor_col <= term.grid.cols

\* a cursor in the pending-wrap column of the last row, after a cursor-down
\* by 99999 rows was clamped
CursorClampedAtPendingWrap ==
  /\ data = Csi(<<99999>>, 66)
  /\ term.grid.cursor_row = term.grid.rows - 1
  /\ term.grid.cursor_col = term.grid.cols

\* C2: feed_bytes accepts every byte sequence: no call panics on an index
\* out of range or on a subtraction below zero
FeedNeverPanics == ~term.panicked

\* an erase of two characters that started in the last cell of the grid
EraseAtLastCell ==
  /\ data = Csi(<<2>>, 88)
  /\ term.grid.cursor_row = term.grid.rows - 1
  /\ term.grid.cursor_col = term.grid.cols - 1
  /\ ~term.panicked

RisEqualsNew ==
  [][data' = <<ESC, 99>> =>
       term' = TerminalNew(term.grid.cols, term.grid.rows)]_vars

\* ESC c was fed to a terminal that had been resized: the grid is that of
\* Terminal::new (default scrollback capacity) at the new width
ResetAfterResize ==
  /\ data = <<ESC, 99>>
  /\ term.grid.cols # Cols
  /\ term.grid.scrollback_max = DEFAULT_SCROLLBACK_MAX
  /\ term.tab_stops = DefaultTabStops(term.grid.cols)

\* C3: once both halves of a sequence have been fed in two feed_bytes
\* calls, terminal and parser equal those of the reference that received
\* the sequence in one call
SplitEqualsWhole == rest = None => Pair(term, parser) = whole

\* U+4E2D arrived as E4 | B8 AD and is in the first cell
WideCharSplitInside ==
  /\ rest = None
  /\ data = <<184, 173>>
  /\ cell(term.grid, 0, 0).ch = 20013
  /\ term.grid.cursor_col = 2

\* C4: every cell whose codepoint is NUL directly follows, in its row, a
\* cell that holds a width-2 codepoint with the same attrs, fg and bg
\* (Cell::default holds a space, so a never-written cell is not NUL)
NulFollowsWide ==
  \A row \in 0..(term.grid.rows - 1) :
    \A col \in 0..(term.grid.cols - 1) :
      cell(term.grid, row, col).ch = NUL =>
        /\ col > 0
        /\ char_width(cell(term.grid, row, col - 1).ch) = 2
        /\ cell(term.grid, row, col - 1).attr = cell(term.grid, row, col).attr
        /\ cell(term.grid, row, col - 1).fg = cell(term.grid, row, col).fg
        /\ cell(term.grid, row, col - 1).bg = cell(term.grid, row, col).bg

\* C5: the scroll region satisfies 0 <= scroll_top <= scroll_bottom < rows
\* after every feed_bytes and Terminal::resize
ScrollRegionOrdered ==
  /\ 0 <= term.scroll_top
  /\ term.scroll_top <= term.scroll_bottom
  /\ term.scroll_bottom < term.grid.rows

\* the codepoints of the cells before the cursor, read row by row
CellsBeforeCursor ==
  LET n == Min(term.grid.cursor_row * term.grid.cols + term.grid.cursor_col,
               Len(term.grid.cells))
  IN [i \in 1..n |-> term.grid.cells[i].ch]

\* s without the NUL sentinels
RECURSIVE DropNul(_)
DropNul(s) ==
  IF Len(s) = 0 THEN << >>
  ELSE IF Head(s) = NUL THEN DropNul(Tail(s))
  ELSE <<Head(s)>> \o DropNul(Tail(s))

\* the cells that codepoints of width 1 and 2 occupy on rows of cols cells:
\* a wide character that meets the last column leaves a space there and
\* starts the next row; each wide character is followed by its NUL sentinel
RECURSIVE Layout(_, _, _)
Layout(cps, cols, acc) ==
  IF Len(cps) = 0 THEN acc
  ELSE LET cp == Head(cps)
           wide == char_width(cp) = 2
           pad == wide /\ Len(acc) % cols = cols - 1
       IN Layout(Tail(cps), cols,
                 acc \o (IF pad THEN <<SPACE>> ELSE << >>) \o <<cp>>
                     \o (IF wide THEN <<NUL>> ELSE << >>))

\* C8 as stated: while nothing has scrolled, the cells before the cursor,
\* without the NUL sentinels, hold exactly the codepoints that were fed
Utf8RoundTrip ==
  (~term.panicked /\ term.grid.scrollback = << >>) =>
    DropNul(CellsBeforeCursor) = sent

\* C8 amended: for codepoints of display width 1 or 2 whose cells fit the
\* grid, the cells before the cursor hold the codepoints in order, each wide
\* one followed by its NUL sentinel and preceded by a space in the last
\* column of a row where it did not fit
Utf8RoundTripPrintable ==
  LET expected == Layout(sent, term.grid.cols, << >>)
  IN ((\A i \in 1..Len(sent) : char_width(sent[i]) \in {1, 2})
        /\ Len(expected) <= term.grid.cols * term.grid.rows) =>
       CellsBeforeCursor = expected

\* U+00E9 and then two wide characters were fed; the second wide one did not
\* fit the first row and stands on the second
WideCharWrapped ==
  /\ sent = <<233, 20013, 128512>>
  /\ cell(term.grid, 0, 0).ch = 233
  /\ cell(term.grid, 1, 0).ch = 128512
  /\ term.grid.cursor_row = 1

\* attrs, fg and bg after CSI P m was fed to a freshly created terminal
SgrFromFresh(P) ==
  LET t == feed_bytes(TerminalNew(Cols, Rows), VtParserNew, Csi(P, 109),
                      TRUE).t
  IN <<t.attr, t.fg, t.bg>>

\* C9: a call that feeds CSI 0 m and then CSI P m leaves attrs, fg and bg
\* equal to those CSI P m gives a freshly created terminal, whatever the
\* state before the call
SgrResetThenSet ==
  [][\A P \in SgrLists :
       data' = ResetThen(P) =>
         <<term'.attr, term'.fg, term'.bg>> = SgrFromFresh(P)]_vars

\* CSI 0 ; CSI 7;42 m was fed when a background other than the default and
\* other than green was current
ResetOverColouredState ==
  /\ data = ResetThen(<<7, 42>>)
  /\ calls = 3
  /\ term.bg = ANSI_COLORS[3]
  /\ term.attr = {INVERSE}
  /\ term.saved_bg = <<1, 2, 3>>

\* C10: when the decoder holds a partial sequence and the next call starts
\* with a byte below 0x80, the call leaves the decoder idle and the terminal
\* as if U+FFFD had been printed in place of the partial sequence, before
\* the bytes of the call
TruncatedSequenceReplaced ==
  [][(is_pending(term.utf8) /\ Len(data') > 0 /\ data'[1] < 128) =>
       /\ ~is_pending(term'.utf8)
       /\ \E overflow_checks \in BOOLEAN :
            [term' EXCEPT !.utf8 = Utf8DecoderNew] =
              [feed_bytes([term EXCEPT !.utf8 = Utf8DecoderNew], parser,
                          Utf8Encode(REPLACEMENT_CHARACTER) \o data',
                          overflow_checks).t
                 EXCEPT !.utf8 = Utf8DecoderNew]]_vars

\* n < 100 in decimal digits
TwoDigits(n) ==
  IF n < 10 THEN <<48 + n>> ELSE <<48 + (n \div 10), 48 + (n % 10)>>

\* ESC [ r ; c R, with ? after the bracket when private
CprReply(r, c, private) ==
  <<ESC, 91>> \o (IF private THEN <<63>> ELSE << >>) \o TwoDigits(r)
    \o <<59>> \o TwoDigits(c) \o <<82>>

\* ESC [ 0 n
StatusReply == <<ESC, 91, 48, 110>>

\* ESC [ ? 62 ; 22 c
AttributesReply == <<ESC, 91, 63, 54, 50, 59, 50, 50, 99>>

\* the replies, in input order, to the queries of the slice d fed to a
\* terminal whose cursor is that of t
ExpectedReplies(d, t) ==
  LET r == t.grid.cursor_row + 1
      c == t.grid.cursor_col + 1
  IN CASE d = Csi(<<5>>, 110) -> StatusReply
       [] d = Csi(<<6>>, 110) -> CprReply(r, c, FALSE)
       [] d = CsiPrivate(<<6>>, 110) -> CprReply(r, c, TRUE)
       [] d = Csi(<< >>, 99) -> AttributesReply
       [] d = Csi(<<5>>, 110) \o Csi(<< >>, 99) ->
            StatusReply \o AttributesReply
       [] d = Csi(<< >>, 99) \o Csi(<<5>>, 110) ->
            AttributesReply \o StatusReply
       [] OTHER -> << >>

\* C11 as stated: every call extends the write-back queue by the replies to
\* its queries, in input order, and removes nothing from it
QueueAppendOnly ==
  [][term'.write_back = term.write_back \o ExpectedReplies(data', term)]_vars

\* C11 amended: every call other than ESC c extends the write-back queue by
\* the replies to its queries, in input order, and removes nothing; ESC c
\* empties the queue
QueueAppendOnlyUntilReset ==
  [][IF data' = <<ESC, 99>>
       THEN term'.write_back = << >>
       ELSE term'.write_back =
              term.write_back \o ExpectedReplies(data', term)]_vars

\* a position report is queued, followed by the two replies of one slice
RepliesQueuedInOrder ==
  /\ data = Csi(<< >>, 99) \o Csi(<<5>>, 110)
  /\ calls = 2
  /\ term.write_back =
       CprReply(1, 1, FALSE) \o AttributesReply \o StatusReply

\* C12: CSI 6 n appends ESC [ r ; c R and CSI ? 6 n appends ESC [ ? r ; c R
\* to write_back, r and c being cursor_row + 1 and cursor_col + 1 in
\* decimal; no other field of the terminal changes
CprReportsCursor ==
  [][/\ data' = Csi(<<6>>, 110) =>
          term' = [term EXCEPT !.write_back =
                     @ \o CprReply(term.grid.cursor_row + 1,
                                   term.grid.cursor_col + 1, FALSE)]
     /\ data' = CsiPrivate(<<6>>, 110) =>
          term' = [term EXCEPT !.write_back =
                     @ \o CprReply(term.grid.cursor_row + 1,
                                   term.grid.cursor_col + 1, TRUE)]]_vars

\* the private report was asked with the cursor in the pending-wrap column
\* of the last row
CprAtPendingWrap ==
  /\ data = CsiPrivate(<<6>>, 110)
  /\ term.grid.cursor_col = term.grid.cols
  /\ term.grid.cursor_row = term.grid.rows - 1
  /\ term.write_back =
       CprReply(term.grid.rows, term.grid.cols + 1, TRUE)

\* C13: when the DECRST that matches the DECSET of the entry leaves the alt
\* screen, the cells of the visible grid are those the main grid had just
\* before the entry
AltScreenPreservesMain ==
  [][(/\ IsSome(term.alt_grid)
      /\ IsSome(entered)
      /\ data' = LeaveAlt(entered[1].mode)
      /\ ~IsSome(term'.alt_grid)) =>
       term'.grid.cells = entered[1].cells]_vars

\* the call restores: ESC 8, CSI u, DECRST 1048, or DECRST 1049 while the alt
\* screen is active, after some save
RestoresNow ==
  /\ data' \in RestoreChunks
  /\ IsSome(last_save)
  /\ data' = LeaveAlt(1049) => IsSome(term.alt_grid)

\* C14 as stated: a restore sets cursor row and column, attrs, fg and bg to
\* the values they had at the most recent save
RestoreReturnsToSave ==
  [][RestoresNow =>
       /\ term'.grid.cursor_row = last_save[1].row
       /\ term'.grid.cursor_col = last_save[1].col
       /\ term'.attr = last_save[1].attr
       /\ term'.fg = last_save[1].fg
       /\ term'.bg = last_save[1].bg]_vars

\* C14 amended: a restore sets cursor row, attrs, fg and bg to the values
\* they had at the most recent save, and the cursor column to the saved
\* column or, when that was the pending-wrap column, to the last column
RestoreReturnsToSaveClamped ==
  [][RestoresNow =>
       /\ term'.grid.cursor_row = last_save[1].row
       /\ term'.grid.cursor_col =
            Min(last_save[1].col, term'.grid.cols - 1)
       /\ term'.attr = last_save[1].attr
       /\ term'.fg = last_save[1].fg
       /\ term'.bg = last_save[1].bg]_vars

\* bold red at (1, 1) was saved, A was printed there after SGR 0, and CSI u
\* brought cursor and SGR back
RestoredAfterChanges ==
  /\ data = Csi(<< >>, 117)
  /\ calls = 4
  /\ term.grid.cursor_row = 1
  /\ term.grid.cursor_col = 1
  /\ term.attr = {BOLD}
  /\ term.fg = ANSI_COLORS[2]
  /\ cell(term.grid, 1, 1).ch = 65
  /\ cell(term.grid, 1, 1).attr = AttrEmpty

\* C15: from every reachable parser state, the actions emitted for an ESC
\* and the bytes that follow it are those a fresh parser emits for them
EscResynchronises ==
  \A tail \in ResyncTails :
    feed(parser, <<ESC>> \o tail) = feed(VtParserNew, <<ESC>> \o tail)

\* a CSI sequence with two parameters was cancelled by CAN: the parser is in
\* Ground and still holds the first parameter
CancelledSequenceLeftParams ==
  /\ data = <<24>>
  /\ parser.state = "Ground"
  /\ parser.params = <<1>>
  /\ parser.current_param = 1

\* the number that the decimal digits ds denote
RECURSIVE DecimalValue(_)
DecimalValue(ds) ==
  IF Len(ds) = 0 THEN 0
  ELSE DecimalValue(SubSeq(ds, 1, Len(ds) - 1)) * 10 + (ds[Len(ds)] - 48)

\* C16: a CSI sequence with the digits ds as its parameter dispatches the
\* parameter min(value of ds, 65535); the call does not panic and leaves
\* the cursor inside the grid
ParamSaturates ==
  [][\A ds \in DigitStrings, final \in ParamFinals :
       data' = ParamSequence(ds, final) =>
         /\ feed(parser, data') =
              <<ActCsiDispatch(final, <<Min(DecimalValue(ds), 65535)>>,
                               << >>)>>
         /\ ~term'.panicked
         /\ term'.grid.cursor_row >= 0
         /\ term'.grid.cursor_row < term'.grid.rows
         /\ term'.grid.cursor_col >= 0
         /\ term'.grid.cursor_col <= term'.grid.cols]_vars

\* CSI 131072 B, whose parameter is 0 modulo 2^16, was dispatched with 65535
\* and took the cursor from the first to the last row
WrappingParamSaturated ==
  /\ data = ParamSequence(<<49, 51, 49, 48, 55, 50>>, 66)
  /\ calls = 1
  /\ parser.params = <<65535>>
  /\ term.grid.cursor_row = term.grid.rows - 1

\* the call takes the cursor column from below cols to cols
EntersPendingWrap ==
  /\ term.grid.cursor_col < term.grid.cols
  /\ term'.grid.cursor_col = term'.grid.cols

\* cursor-right at column cols - 1 stays there
CufStaysAtLastColumn ==
  (data' = Csi(<<9>>, 67) /\ term.grid.cursor_col = term.grid.cols - 1) =>
    term'.grid.cursor_col = term.grid.cols - 1

\* C17 as stated: only a call that prints takes the cursor column from
\* below cols to cols, and cursor-right at column cols - 1 stays there
PendingWrapOnlyByPrint ==
  [][/\ EntersPendingWrap => data' \in MoveTextChunks
     /\ CufStaysAtLastColumn]_vars

\* C17 amended: only a call that prints takes the cursor column from below
\* cols to cols, or a DECRST 47 / 1047 that makes the main grid visible
\* again with the pending-wrap column a print left its cursor in; no C0
\* control, ESC dispatch, cursor movement or restore does, and cursor-right
\* at column cols - 1 stays there
PendingWrapOnlyByPrintOrSwap ==
  [][/\ EntersPendingWrap =>
          \/ data' \in MoveTextChunks
          \/ /\ data' \in { LeaveAlt(47), LeaveAlt(1047) }
             /\ IsSome(term.alt_grid)
             /\ term.alt_grid[1].cursor_col = term.alt_grid[1].cols
     /\ CufStaysAtLastColumn]_vars

\* cursor-right by 9 was fed at column cols - 1, next to a wide character,
\* and the cursor is still there
CufAtLastColumn ==
  /\ data = Csi(<<9>>, 67)
  /\ calls = 3
  /\ term.grid.cursor_col = term.grid.cols - 1
  /\ cell(term.grid, 0, 0).ch = 20013

\* the call prints U+4E2D with auto-wrap on and the cursor in the last column
WideAtLastColumn ==
  /\ data' = <<228, 184, 173>>
  /\ term.auto_wrap
  /\ ~is_pending(term.utf8)
  /\ term.grid.cursor_col = term.grid.cols - 1

\* the padding cell: a space with the current SGR state
PaddingCell == MkCell(SPACE, term.attr, term.fg, term.bg)

\* the wide character stands at column 0 of row r, its sentinel at column 1
\* and the cursor at column 2
WidePlacedOn(r) ==
  /\ term'.grid.cursor_row = r
  /\ term'.grid.cursor_col = 2
  /\ cell(term'.grid, r, 0).ch = 20013
  /\ cell(term'.grid, r, 1).ch = NUL

\* C18 as stated: the wide character leaves a space in the last column and
\* goes to column 0 of the next row; at scroll_bottom the region scrolls
\* instead, taking the padded row up with it
WideWrapsToNextRow ==
  [][WideAtLastColumn =>
       LET r == term.grid.cursor_row
       IN IF r = term.scroll_bottom
            THEN /\ WidePlacedOn(r)
                 /\ r > term.scroll_top =>
                      cell(term'.grid, r - 1, term.grid.cols - 1) = PaddingCell
            ELSE /\ WidePlacedOn(r + 1)
                 /\ cell(term'.grid, r, term.grid.cols - 1) = PaddingCell]_vars

\* C18 amended: as stated, except that on the last row of the grid, when
\* that row is not scroll_bottom, the cursor cannot move down: the wide
\* character goes to column 0 of the same row
WideWrapsOrStays ==
  [][WideAtLastColumn =>
       LET r == term.grid.cursor_row
       IN IF r = term.scroll_bottom
            THEN /\ WidePlacedOn(r)
                 /\ r > term.scroll_top =>
                      cell(term'.grid, r - 1, term.grid.cols - 1) = PaddingCell
          ELSE IF r < term.grid.rows - 1
            THEN /\ WidePlacedOn(r + 1)
                 /\ cell(term'.grid, r, term.grid.cols - 1) = PaddingCell
          ELSE /\ WidePlacedOn(r)
               /\ term.grid.cols > 2 =>
                    cell(term'.grid, r, term.grid.cols - 1) = PaddingCell]_vars

\* with a red background, U+4E2D met the last column of the first row: the
\* padding cell is red and the character is on the second row
WidePaddedAndWrapped ==
  /\ data = <<228, 184, 173>>
  /\ term.bg = ANSI_COLORS[2]
  /\ cell(term.grid, 0, term.grid.cols - 1) =
       MkCell(SPACE, AttrEmpty, DEFAULT_FG, ANSI_COLORS[2])
  /\ cell(term.grid, 1, 0).ch = 20013
  /\ cell(term.grid, 1, 1).ch = NUL
  /\ term.grid.cursor_row = 1
  /\ term.grid.cursor_col = 2

\* C19: with origin mode set and a valid scroll region, CUP / HVP leaves the
\* cursor row inside the region, at scroll_top + row - 1 when that is
\* inside; with origin mode off the row is row - 1 clamped to the grid
CupStaysInRegion ==
  [][\A rc \in CupParams :
       data' \in { Csi(rc, 72), Csi(rc, 102) } =>
         IF term.origin_mode
           THEN (/\ 0 <= term.scroll_top
                 /\ term.scroll_top <= term.scroll_bottom
                 /\ term.scroll_bottom < term.grid.rows) =>
                  /\ term.scroll_top <= term'.grid.cursor_row
                  /\ term'.grid.cursor_row <= term.scroll_bottom
                  /\ term.scroll_top + rc[1] - 1 <= term.scroll_bottom =>
                       term'.grid.cursor_row = term.scroll_top + rc[1] - 1
           ELSE term'.grid.cursor_row = Min(rc[1] - 1, term.grid.rows - 1)]_vars

\* C20: CSI ? 6 h moves the cursor to (scroll_top, 0)
DecomHomesCursor ==
  [][data' = CsiPrivate(<<6>>, 104) =>
       /\ term'.grid.cursor_row = term'.scroll_top
       /\ term'.grid.cursor_col = 0]_vars

\* the record that closes the cycle of markers at rows cycle.rows with the
\* marker D at the cursor row and exit code e
CycleRecordIs(rec, e) ==
  /\ rec.prompt_row = cycle.rows[1]
  /\ rec.command_row = cycle.rows[2]
  /\ rec.output_start_row = cycle.rows[3]
  /\ rec.output_end_row = Some(term.grid.cursor_row)
  /\ rec.exit_code = Some(e)

\* the history gained exactly one record, the one of the cycle (the oldest
\* record leaves a full history), the tracker is Idle and last_exit_code()
\* is e
CycleRecorded(e) ==
  LET old == term.shell.commands
      new == term'.shell.commands
      kept == IF Len(old) < term.shell.max_history THEN old ELSE Tail(old)
  IN /\ Len(new) = Len(kept) + 1
     /\ SubSeq(new, 1, Len(kept)) = kept
     /\ CycleRecordIs(new[Len(new)], e)
     /\ term'.shell.state = "Idle"
     /\ last_exit_code(term'.shell) = Some(e)

\* C21 as stated: after the markers A, B, C received in that order at rows
\* ra, rb, rc, the marker D;e at row rd appends exactly one record
\* (ra, rb, rc, rd, e), the tracker returns to Idle and last_exit_code()
\* returns e
MarkerCycleRecorded ==
  [][\A e \in ExitCodes :
       (data' = MarkerD(e) /\ Len(cycle.rows) = 3) => CycleRecorded(e)]_vars

\* C21 amended: the same, when no RIS was received between the markers
MarkerCycleRecordedWithoutReset ==
  [][\A e \in ExitCodes :
       (data' = MarkerD(e) /\ Len(cycle.rows) = 3 /\ ~cycle.reset) =>
         CycleRecorded(e)]_vars

\* a cycle with the prompt on row 0 and the command on row 1 was closed
\* with exit code -1 after an earlier record with exit code 0
SecondCycleClosed ==
  /\ data = MarkerD(0 - 1)
  /\ Len(term.shell.commands) = 2
  /\ term.shell.commands[1].exit_code = Some(0)
  /\ term.shell.commands[2].prompt_row = 0
  /\ term.shell.commands[2].command_row = 1
  /\ term.shell.commands[2].exit_code = Some(0 - 1)
  /\ term.shell.state = "Idle"

\* the prompt rows of the history
PromptRows == { term.shell.commands[i].prompt_row :
                  i \in 1..Len(term.shell.commands) }

\* C22: prev_prompt(row) is the largest recorded prompt row below row and
\* next_prompt(row) the smallest recorded prompt row above it, None when
\* there is none, in whatever order the prompt rows were recorded
PromptNavigationNearest ==
  \A row \in 0..Rows :
    LET below == { r \in PromptRows : r < row }
        above == { r \in PromptRows : r > row }
    IN /\ prev_prompt(term.shell, row) =
            IF below = { } THEN None
            ELSE Some(CHOOSE r \in below : \A q \in below : q <= r)
       /\ next_prompt(term.shell, row) =
            IF above = { } THEN None
            ELSE Some(CHOOSE r \in above : \A q \in above : r <= q)

\* C23: resize(c, r) keeps every cell (i, j) with i < min(old rows, r) and
\* j < min(old cols, c), makes every other cell of the new grid blank and
\* leaves the scrollback unchanged
ResizeKeepsOverlap ==
  [][data' = << >> =>
       LET g == term.grid
           h == term'.grid
       IN /\ Len(h.cells) = h.cols * h.rows
          /\ \A i \in 0..(h.rows - 1), j \in 0..(h.cols - 1) :
               cell(h, i, j) =
                 IF i < Min(g.rows, h.rows) /\ j < Min(g.cols, h.cols)
                   THEN cell(g, i, j) ELSE CellDefault
          /\ h.scrollback = g.scrollback]_vars

\* a grid whose first row was full of B was made narrower and taller: the
\* row is cut, not reflowed, and the new row is blank
ResizedNarrowerAndTaller ==
  /\ data = << >>
  /\ calls > 0
  /\ term.grid.cols = Cols - 1
  /\ term.grid.rows = Rows + 1
  /\ \A j \in 0..(Cols - 2) : cell(term.grid, 0, j).ch = 66
  /\ \A j \in 0..(Cols - 2) : cell(term.grid, 1, j) = CellDefault
  /\ \A j \in 0..(Cols - 2) : cell(term.grid, Rows, j) = CellDefault

\* C24: the parser emits no Print and no Execute action for the bytes of a
\* control string (DCS, SOS, PM, APC) up to its terminator, and the call
\* that feeds the string leaves the grid and the cursor as they were
StringPayloadConsumed ==
  [][data' \in StringChunks =>
       /\ \A i \in 1..Len(feed(parser, data')) :
            feed(parser, data')[i].type \notin { "Print", "Execute" }
       /\ term'.grid = term.grid]_vars

\* params, current_param, intermediates and the OSC payload of the parser
\* are empty or zero
BuffersEmpty(p) ==
  /\ p.params = << >>
  /\ p.current_param = 0
  /\ p.intermediates = << >>
  /\ p.osc_data = << >>

\* C25 as stated: whenever the parser is in Ground its buffers are empty
GroundBuffersEmpty == parser.state = "Ground" => BuffersEmpty(parser)

\* C25 amended: the buffers are empty whenever a sequence has just been
\* introduced (the parser is in Escape or CsiEntry), whatever an earlier
\* sequence left in them
IntroducedBuffersEmpty ==
  parser.state \in { "Escape", "CsiEntry" } => BuffersEmpty(parser)

\* CSI 1 m was dispatched (the text is bold) and an ESC has been received
\* since: the parameter of the dispatched sequence is gone
EscAfterDispatch ==
  /\ data = <<ESC>>
  /\ term.attr = {BOLD}
  /\ parser.state = "Escape"
  /\ BuffersEmpty(parser)

\* the scroll region lies inside the grid and is not empty
ValidRegion ==
  /\ 0 <= term.scroll_top
  /\ term.scroll_top <= term.scroll_bottom
  /\ term.scroll_bottom < term.grid.rows

\* C26: IL and DL change no cell in a row outside
\* [scroll_top, scroll_bottom], wherever the cursor is
LinesStayInRegion ==
  [][(data' \in LineChunks /\ ValidRegion) =>
       \A i \in 0..(term.grid.rows - 1), j \in 0..(term.grid.cols - 1) :
         (i < term.scroll_top \/ i > term.scroll_bottom) =>
           cell(term'.grid, i, j) = cell(term.grid, i, j)]_vars

\* the call feeds LF, VT, FF or ESC D
IndexFed == data' \in { <<10>>, <<11>>, <<12>>, <<ESC, 68>> }

\* the effect C27 describes for an index: at scroll_bottom the region moves
\* up by one row, row scroll_bottom becomes blank, the rows outside the
\* region and the cursor stay, and row 0 goes to the scrollback exactly when
\* scroll_top = 0; elsewhere the cursor moves down one row, not past the
\* last row, and no cell changes
IndexEffect ==
  LET g == term.grid
      h == term'.grid
      top == term.scroll_top
      bottom == term.scroll_bottom
      pushed == Append(g.scrollback, RowCells(g, 0))
  IN IF g.cursor_row = bottom
       THEN /\ \A i \in 0..(g.rows - 1), j \in 0..(g.cols - 1) :
                 cell(h, i, j) =
                   IF i < top \/ i > bottom THEN cell(g, i, j)
                   ELSE IF i < bottom THEN cell(g, i + 1, j)
                   ELSE CellDefault
            /\ h.cursor_row = g.cursor_row
            /\ h.cursor_col = g.cursor_col
            /\ h.scrollback =
                 IF top # 0 THEN g.scrollback
                 ELSE IF Len(pushed) > g.scrollback_max THEN Tail(pushed)
                 ELSE pushed
       ELSE /\ h.cells = g.cells
            /\ h.scrollback = g.scrollback
            /\ h.cursor_col = g.cursor_col
            /\ h.cursor_row = Min(g.cursor_row + 1, g.rows - 1)

\* C27: LF, VT, FF and ESC D scroll the region when the cursor is at
\* scroll_bottom and move the cursor down otherwise
IndexScrollsRegion == [][IndexFed => IndexEffect]_vars

\* the same for the scroll regions that lie inside the grid and are not
\* empty
IndexScrollsValidRegion == [][(IndexFed /\ ValidRegion) => IndexEffect]_vars

\* with auto-wrap off, a call that prints text leaves cursor_row, the
\* scrollback and every other row unchanged; an A printed with the cursor
\* at the margin is written to column cols - 1
NoWrapRowEffect ==
  LET g == term.grid
      h == term'.grid
  IN      /\ h.cursor_row = g.cursor_row
          /\ h.scrollback = g.scrollback
          /\ \A i \in 0..(g.rows - 1), j \in 0..(g.cols - 1) :
               i # g.cursor_row => cell(h, i, j) = cell(g, i, j)
          /\ (data' = <<65>> /\ g.cursor_col >= g.cols - 1) =>
               /\ cell(h, g.cursor_row, g.cols - 1) =
                    MkCell(65, term.attr, term.fg, term.bg)
               /\ h.cursor_col = g.cols - 1
               /\ \A j \in 0..(g.cols - 2) :
                    cell(h, g.cursor_row, j) = cell(g, g.cursor_row, j)

\* C28 as stated: with auto-wrap off, printing never changes cursor_row,
\* never scrolls and never leaves cursor_col above cols - 1, and a narrow
\* character printed at the margin overwrites the cell at column cols - 1
NoWrapStaysOnRow ==
  [][(data' \in PrintChunks /\ ~term.auto_wrap) =>
       /\ NoWrapRowEffect
       /\ term'.grid.cursor_col <= term.grid.cols - 1]_vars

\* C28 amended: the same, except that a character of width 0 changes
\* nothing, so that it leaves a cursor in the pending-wrap column there;
\* every character of width 1 or 2 leaves cursor_col at most at cols - 1
NoWrapStaysOnRowPrinted ==
  [][(data' \in PrintChunks /\ ~term.auto_wrap) =>
       /\ NoWrapRowEffect
       /\ IF data' = <<204, 129>>
            THEN term'.grid = term.grid
            ELSE term'.grid.cursor_col <= term.grid.cols - 1]_vars

\* with auto-wrap off a full row of B was printed and then an A: the A
\* replaced the last B and the cursor is in the last column of row 0
MarginOverwritten ==
  /\ data = <<65>>
  /\ ~term.auto_wrap
  /\ term.grid.cursor_row = 0
  /\ term.grid.cursor_col = term.grid.cols - 1
  /\ cell(term.grid, 0, term.grid.cols - 1).ch = 65
  /\ \A j \in 0..(term.grid.cols - 2) : cell(term.grid, 0, j).ch = 66
  /\ \A j \in 0..(term.grid.cols - 1) : cell(term.grid, 1, j) = CellDefault

\* C29: a call that feeds CSI n b right after a call that printed the
\* character ch leaves the terminal as feeding ch n more times would; with
\* the cursor at column 0 REP changes nothing
RepRepeatsPrinted ==
  [][\A n \in RepCounts :
       data' = Rep(n) =>
         /\ data \in RepeatedChars =>
              term' = feed_bytes(term, parser, Times(data, n), FALSE).t
         /\ term.grid.cursor_col = 0 => term' = term]_vars

\* the columns right of col whose tab stop is set
StopsAfter(col) ==
  { c \in (col + 1)..(term.grid.cols - 1) : term.tab_stops[c + 1] }

\* the tab stops with the stop at the cursor column set to v
StopAtCursor(v) ==
  [i \in 1..Len(term.tab_stops) |->
     IF i = term.grid.cursor_col + 1 THEN v ELSE term.tab_stops[i]]

\* C30: the first call finds the tab stops at every 8th column; HT moves
\* the cursor to the least column right of it whose tab stop is set, to
\* cols - 1 when there is none, and changes nothing else; ESC H sets the
\* stop at the cursor column, CSI 0 g clears it, CSI 3 g clears all stops,
\* and no other sequence changes the stops
TabStopsFollowed ==
  [][/\ calls = 0 =>
          term.tab_stops = [i \in 1..term.grid.cols |-> (i - 1) % 8 = 0]
     /\ data' = <<9>> =>
          /\ term'.grid.cursor_col =
               IF StopsAfter(term.grid.cursor_col) = { }
                 THEN term.grid.cols - 1
                 ELSE CHOOSE c \in StopsAfter(term.grid.cursor_col) :
                        \A d \in StopsAfter(term.grid.cursor_col) : c <= d
          /\ term' = [term EXCEPT !.grid.cursor_col = term'.grid.cursor_col]
     /\ term'.tab_stops =
          IF data' = <<ESC, 72>> THEN StopAtCursor(TRUE)
          ELSE IF data' = Csi(<<0>>, 103) THEN StopAtCursor(FALSE)
          ELSE IF data' = Csi(<<3>>, 103)
            THEN [i \in 1..term.grid.cols |-> FALSE]
          ELSE term.tab_stops]_vars

\* a stop was set at column 1 and HT from column 0 stopped there, short of
\* the default stop at column 8
TabToSetStop ==
  /\ data = <<9>>
  /\ term.grid.cursor_col = 1
  /\ term.tab_stops[2]
  /\ term.tab_stops[9]
  /\ term.grid.cols > 9

\* the reference palette: the ANSI table, the 6x6x6 cube with axis values
\* 0, 95, 135, 175, 215, 255, and the grey ramp 8, 18, ..., 238
PaletteAxis(v) == IF v = 0 THEN 0 ELSE 55 + 40 * v

PaletteColor(idx) ==
  IF idx <= 15 THEN ANSI_COLORS[idx + 1]
  ELSE IF idx <= 231
    THEN <<PaletteAxis((idx - 16) \div 36),
           PaletteAxis(((idx - 16) \div 6) % 6),
           PaletteAxis((idx - 16) % 6)>>
  ELSE <<8 + 10 * (idx - 232), 8 + 10 * (idx - 232), 8 + 10 * (idx - 232)>>

\* the palette index that the sequence SGR 38;5;idx or SGR 48;5;idx names
\* (the digits between the second semicolon and the final byte)
PaletteIndexOf(d) == DecimalValue(SubSeq(d, 8, Len(d) - 1))

\* C31: SGR 38;5;idx sets the foreground and SGR 48;5;idx the background to
\* the reference palette colour of idx, every channel within 0..255, for
\* every idx in 0..255
PaletteMatchesReference ==
  [][LET idx == PaletteIndexOf(data')
         layer == IF data'[3] = 51 THEN 38 ELSE 48
     IN /\ idx \in PaletteIndexes
        /\ data' = SgrPalette(layer, idx)
        /\ \A k \in 1..3 : PaletteColor(idx)[k] \in 0..255
        /\ layer = 38 => term'.fg = PaletteColor(idx) /\ term'.bg = term.bg
        /\ layer = 48 => term'.bg = PaletteColor(idx) /\ term'.fg = term.fg
    ]_vars

\* SGR 38;5;110 selected the cube colour (135, 175, 215)
CubeColourSelected ==
  /\ data = SgrPalette(38, 110)
  /\ term.fg = <<135, 175, 215>>
  /\ term.bg = DEFAULT_BG

\* C32: the stored title never has more characters than the sanitisation
\* cap
TitleCapped == Len(term.title) <= SANITIZE_OSC_CAP

\* the terminal at the moment the first line of the call d scrolls: a letter
\* and CR come before the LF of a line of text
BeforeScroll(t, p, d) ==
  IF d \in ScrollLineChunks THEN feed_bytes(t, p, SubSeq(d, 1, 2), TRUE).t
  ELSE t

\* number of times the call d scrolls the region of t up
ScrollCount(t, d) ==
  IF d \in ScrollLineChunks \cup { <<10>>, <<ESC, 68>> }
    THEN IF t.grid.cursor_row = t.scroll_bottom THEN 1 ELSE 0
  ELSE IF \E n \in ScrollUpCounts : d = ScrollUp(n)
    THEN CHOOSE n \in ScrollUpCounts : d = ScrollUp(n)
  ELSE 0

\* row 0 of the grid at the j-th scroll of a region 0..bottom of t
TopRowAt(t, j) ==
  IF j - 1 <= t.scroll_bottom THEN RowCells(t.grid, j - 1)
  ELSE Fill(t.grid.cols, CellDefault)

\* the last n elements of s
LastN(s, n) == IF Len(s) <= n THEN s ELSE SubSeq(s, Len(s) - n + 1, Len(s))

\* C33: a call that scrolls a region with top 0 up k times appends, in
\* order, the k rows that were row 0 at each scroll to the scrollback and
\* keeps the most recent scrollback_max lines of the result; a call that
\* scrolls a region with another top, or does not scroll, leaves the
\* scrollback unchanged
ScrollbackIsFifo ==
  [][LET pre == BeforeScroll(term, parser, data')
         k == ScrollCount(pre, data')
         off == [j \in 1..k |-> TopRowAt(pre, j)]
     IN term'.grid.scrollback =
          IF pre.scroll_top = 0
            THEN LastN(term.grid.scrollback \o off, term.grid.scrollback_max)
            ELSE term.grid.scrollback]_vars

\* the lines A, B and C scrolled off in this order: B and C are left
OldestLineEvicted ==
  /\ Len(term.grid.scrollback) = term.grid.scrollback_max
  /\ term.grid.scrollback_max = MaxScrollback + 1
  /\ calls > term.grid.scrollback_max
  /\ term.grid.scrollback[Len(term.grid.scrollback)][1].ch = 67
  /\ term.grid.scrollback[Len(term.grid.scrollback) - 1][1].ch = 66

\* C34: a feed_bytes call leaves the columns and rows of the visible grid
\* and the length of tab_stops as the last resize (or the construction)
\* set them
DimensionsChangeOnlyInResize ==
  [][data' # << >> =>
       /\ term'.grid.cols = term.grid.cols
       /\ term'.grid.rows = term.grid.rows
       /\ Len(term'.tab_stops) = Len(term.tab_stops)
       /\ Len(term'.tab_stops) = term'.grid.cols]_vars

\* C35: under every interleaving of resize and feed_bytes no call panics,
\* scroll_bottom is a row of the visible grid and cursor_col is at most
\* the length of tab_stops
ResizeKeepsIndexesInRange ==
  /\ ~term.panicked
  /\ term.scroll_bottom < term.grid.rows
  /\ term.grid.cursor_col <= Len(term.tab_stops)

\* the parser p returns an OscDispatch action for the bytes of d
Dispatches(p, d) ==
  \E i \in 1..Len(feed(p, d)) : feed(p, d)[i].type = "OscDispatch"

\* C36: a call dispatches an OSC payload exactly when it feeds BEL or
\* 0x9C to a parser in OscString; ESC \, ESC, CAN and SUB end the string
\* without a dispatch, and a call without a dispatch leaves title, cwd and
\* shell-integration state unchanged
OscDispatchedOnlyByTerminator ==
  [][/\ Dispatches(parser, data') <=>
          (parser.state = "OscString" /\ data' \in OscEndChunks)
     /\ data' \in OscAbortChunks => parser'.state # "OscString"
     /\ ~Dispatches(parser, data') =>
          /\ term'.title = term.title
          /\ term'.osc7_cwd = term.osc7_cwd
          /\ term'.osc133_data = term.osc133_data
          /\ term'.shell = term.shell]_vars

\* CAN ended an OSC string whose payload is still in the parser, and no
\* title was set
OscCancelled ==
  /\ data = <<24>>
  /\ parser.state = "Ground"
  /\ parser.osc_data = <<48, 59, 116>>
  /\ term.title = << >>

\* C37: the reply to CSI 6 n and to CSI ? 6 n names a cell of the visible
\* grid: a row in 1..rows and a column in 1..cols
CprNamesCell ==
  [][data' \in { Csi(<<6>>, 110), CsiPrivate(<<6>>, 110) } =>
       \E r \in 1..term.grid.rows, c \in 1..term.grid.cols :
         term'.write_back =
           term.write_back \o CprReply(r, c, data' = CsiPrivate(<<6>>, 110))
    ]_vars

\* ED 0, 1, 2 and 3, EL 0, 1 and 2, ECH 2
EraseSequences ==
  { Csi(<< >>, 74), Csi(<<1>>, 74), Csi(<<2>>, 74), Csi(<<3>>, 74),
    Csi(<< >>, 75), Csi(<<1>>, 75), Csi(<<2>>, 75), Csi(<<2>>, 88) }

\* C38: a call that feeds an erase sequence changes nothing but the cells
\* of the visible grid: the cursor, the scrollback, the SGR state and the
\* modes stay
EraseChangesOnlyCells ==
  [][data' \in EraseSequences =>
       term' = [term EXCEPT !.grid.cells = term'.grid.cells]]_vars

\* C39: an OSC 133 ; D marker adds a record to the history exactly when a
\* command is in progress (the state is Prompt, Command or Output); in the
\* Idle state it leaves the history as it was
FinishRecordsOnlyInProgress ==
  [][data' \in { MarkerD(e) : e \in ExitCodes } =>
       IF term.shell.state = "Idle"
         THEN term'.shell.commands = term.shell.commands
         ELSE Len(term'.shell.commands) = Len(term.shell.commands) + 1]_vars

\* C40: the restore-default SGR codes (CSI m, CSI 0 m, CSI 39;49 m) fed
\* right after set_default_colors(fg, bg), or after the construction that
\* applied the theme, leave the foreground fg and the background bg
DefaultsRestoreTheme ==
  [][(data = << >> /\
      data' \in { Csi(<< >>, 109), ResetThen(<< >>), Csi(<<39, 49>>, 109) })
       => term'.fg = term.fg /\ term'.bg = term.bg]_vars

====
